---- MODULE Spec2Model ----
(***************************************************************************)
(* Model of scripts/render_slab_generic.py: render_door_slab, a linear     *)
(* drawing pipeline over one RGBA canvas, and hex_to_rgb.                  *)
(*                                                                         *)
(* Real-valued inputs (inches, depths) are carried as integers in          *)
(* thousandths (Milli); a product "inches * scale" is then the exact       *)
(* quotient v * width_px / door_w_inches and int() is truncation toward    *)
(* zero.  An image is the sequence of drawing operations applied to it.    *)
(* The inputs are those on which the source's floating-point arithmetic    *)
(* gives the exact quotients' truncations; the one place where it does     *)
(* not, the blend of the base channel 139, is modelled by FallsShort.      *)
(*                                                                         *)
(* Spec is a session of sequential calls, SpecBlend the calls up to the    *)
(* blended colour over every stain channel, SpecThreads two threads that   *)
(* render concurrently and share the process's random generator.           *)
(* SpecMetro renders the Metropolitan door at one width with both         *)
(* scripts/render_door_slab.py and the generic renderer; SpecGemini is a   *)
(* run of generate_gemini of scripts/generate_template_photo.py and        *)
(* SpecTemplate one of generate_template of                                *)
(* scripts/generate_all_signatures.py, the renderer's stages included.     *)
(***************************************************************************)
EXTENDS Integers, Sequences, FiniteSets, TLC

VARIABLES
    pc,          \* position of the running call in render_door_slab
    args,        \* arguments of the running call
    calls,       \* number of calls made so far
    strictRect,  \* the imaging library rejects a rectangle with x1 < x0 or y1 < y0
    rng,         \* state of the process-global random generator
    scale,       \* local scale = width_px / door_w_inches, as a fraction
    height_px,   \* local height_px
    blended,     \* local blended wood colour
    img,         \* drawing operations applied to the canvas bound to img
    buckets,     \* locals panels, grooves, glass_panels
    stages,      \* stages of the running call that have completed
    err,         \* exception that left the running call, "" if none
    file,        \* content of output_path
    ret,         \* value returned by the running call
    prev,        \* arguments and outcome of the previous call
    workers,     \* locals of the threads that render concurrently
    binding,     \* the images the names img and draw are bound to
    job          \* the run of a generation script: position, variants, files

vars == <<pc, args, calls, strictRect, rng, scale, height_px, blended, img,
          buckets, stages, err, file, ret, prev, workers, binding, job>>

\* ---------------------------------------------------------------- bounds
Milli == 1000
MaxCalls == 2
MaxElems == 2
MaxVariants == 2
RngMod == 65536

\* ------------------------------------------------------------ arithmetic
Max(a, b) == IF a >= b THEN a ELSE b
Min(a, b) == IF a <= b THEN a ELSE b
Abs(a) == IF a >= 0 THEN a ELSE -a

\* int(n / d): truncation toward zero
IntTrunc(n, d) ==
    LET q == Abs(n) \div Abs(d)
    IN  IF (n >= 0) = (d > 0) THEN q ELSE -q

\* round(n / d): nearest integer, ties to even, as Python's round()
RoundDiv(n, d) ==
    LET an == Abs(n)
        ad == Abs(d)
        q  == an \div ad
        r  == an % ad
        m  == IF 2 * r > ad \/ (2 * r = ad /\ q % 2 = 1) THEN q + 1 ELSE q
    IN  IF (n >= 0) = (d > 0) THEN m ELSE -m

\* ---------------------------------------------------------------- palettes
WOOD_COLORS ==
    ("oak" :> <<160, 130, 90>>) @@ ("walnut" :> <<75, 50, 35>>) @@
    ("mahogany" :> <<100, 55, 45>>) @@ ("maple" :> <<139, 115, 85>>) @@
    ("white-oak" :> <<140, 125, 100>>)

HANDLE_COLORS ==
    ("matte-black" :> <<30, 30, 30>>) @@ ("brushed-nickel" :> <<170, 170, 165>>) @@
    ("brass" :> <<180, 150, 50>>) @@ ("bronze" :> <<120, 85, 55>>)

GLASS_COLORS ==
    ("frosted" :> <<180, 200, 210, 180>>) @@ ("rain" :> <<170, 195, 215, 160>>) @@
    ("seeded" :> <<185, 200, 195, 170>>) @@ ("clear" :> <<200, 220, 235, 120>>)

\* dict.get(key, default)
Get(d, k, default) == IF k \in DOMAIN d THEN d[k] ELSE default

\* ---------------------------------------------------------------- hex_to_rgb
HexDigits == {"0", "1", "2", "3", "4", "5", "6", "7", "8", "9",
              "a", "b", "c", "d", "e", "f", "A", "B", "C", "D", "E", "F"}

HexVal(c) ==
    CASE c = "0" -> 0 [] c = "1" -> 1 [] c = "2" -> 2 [] c = "3" -> 3
      [] c = "4" -> 4 [] c = "5" -> 5 [] c = "6" -> 6 [] c = "7" -> 7
      [] c = "8" -> 8 [] c = "9" -> 9
      [] c \in {"a", "A"} -> 10 [] c \in {"b", "B"} -> 11
      [] c \in {"c", "C"} -> 12 [] c \in {"d", "D"} -> 13
      [] c \in {"e", "E"} -> 14 [] c \in {"f", "F"} -> 15

\* str.lstrip(ch): every leading ch is removed
RECURSIVE LStrip(_, _)
LStrip(s, ch) ==
    IF s # <<>> /\ Head(s) = ch THEN LStrip(Tail(s), ch) ELSE s

RECURSIVE RStrip(_, _)
RStrip(s, ch) ==
    IF s # <<>> /\ s[Len(s)] = ch THEN RStrip(SubSeq(s, 1, Len(s) - 1), ch) ELSE s

\* s[i:i+2] for a 0-based i, clipped to the string as Python slices are
Slice2(s, i) == SubSeq(s, Min(i + 1, Len(s) + 1), Min(i + 2, Len(s)))

\* int(s, 16) for a string of at most two characters: surrounding
\* whitespace is ignored, one sign is accepted, the rest must be one or
\* two hexadecimal digits; anything else is a ValueError
ParseInt16(s) ==
    LET t    == RStrip(LStrip(s, " "), " ")
        neg  == t # <<>> /\ Head(t) = "-"
        body == IF t # <<>> /\ Head(t) \in {"+", "-"} THEN Tail(t) ELSE t
        ok   == body # <<>> /\ \A k \in 1..Len(body) : body[k] \in HexDigits
        mag  == IF ~ok THEN 0
                ELSE IF Len(body) = 1 THEN HexVal(body[1])
                ELSE 16 * HexVal(body[1]) + HexVal(body[2])
    IN  [ok |-> ok, val |-> IF neg THEN -mag ELSE mag]

hex_to_rgb(hex_color) ==
    LET h == LStrip(hex_color, "#")
        r == ParseInt16(Slice2(h, 0))
        g == ParseInt16(Slice2(h, 2))
        b == ParseInt16(Slice2(h, 4))
    IN  [ok |-> r.ok /\ g.ok /\ b.ok, rgb |-> <<r.val, g.val, b.val>>]

\* ---------------------------------------------------------- random module
\* The library generator is a deterministic function of its state: a
\* counter that every draw advances by one, and an output that scrambles
\* the counter, stand for it.
RngSeed(n) == n % RngMod
RngNext(s) == (s + 1) % RngMod
RngOut(s) == ((s * 25173 + 13849) % RngMod) \div 64

\* the state after k draws
RngSkip(s, k) == (s + k) % RngMod

\* a render that does not reseed
SeedGrain_absent(s) == s

\* random.seed(42)
SeedGrain(s) == RngSeed(42)

\* a draw from lo..hi+1
randint_upperOpen(s, lo, hi) ==
    [state |-> RngNext(s), val |-> lo + (RngOut(RngNext(s)) % (hi - lo + 2))]

\* random.randint(lo, hi): advances the state, value in lo..hi
randint(s, lo, hi) ==
    [state |-> RngNext(s), val |-> lo + (RngOut(RngNext(s)) % (hi - lo + 1))]

\* ------------------------------------------------------ drawing operations
Rect(x1, y1, x2, y2, fill, site) ==
    [kind |-> "rect", xy |-> <<x1, y1, x2, y2>>, fill |-> fill, width |-> 0,
     site |-> site, over |-> <<>>]

Line(x1, y1, x2, y2, fill, w, site) ==
    [kind |-> "line", xy |-> <<x1, y1, x2, y2>>, fill |-> fill, width |-> w,
     site |-> site, over |-> <<>>]

\* Image.new(mode, (w, h), colour)
NewImage(w, h, fill, site) ==
    [kind |-> "new", xy |-> <<0, 0, w, h>>, fill |-> fill, width |-> 0,
     site |-> site, over |-> <<>>]

\* Image.alpha_composite(img, overlay): the overlay's operations are
\* blended over what the canvas holds
Composite(overlay, site) ==
    [kind |-> "composite", xy |-> <<0, 0, 0, 0>>, fill |-> <<>>, width |-> 0,
     site |-> site, over |-> overlay]

\* an exception raised where the next operation would have been drawn
Raise(e) ==
    [kind |-> "raise", xy |-> <<0, 0, 0, 0>>, fill |-> <<>>, width |-> 0,
     site |-> e, over |-> <<>>]

\* ImageDraw.rectangle raises ValueError for x1 < x0 or y1 < y0 when the
\* library checks its coordinates
Rejected(op, strict) ==
    \/ op.kind = "raise"
    \/ strict /\ op.kind = "rect" /\ (op.xy[3] < op.xy[1] \/ op.xy[4] < op.xy[2])

\* The operations of a stage are drawn in order up to the first one that
\* raises; err names the exception.
RunDraw(ops, strict) ==
    LET bad == {k \in 1..Len(ops) : Rejected(ops[k], strict)}
        first == IF bad = {} THEN Len(ops) + 1
                 ELSE CHOOSE k \in bad : \A j \in bad : k <= j
    IN  [ops |-> SubSeq(ops, 1, first - 1),
         err |-> IF bad = {} THEN ""
                 ELSE IF ops[first].kind = "raise" THEN ops[first].site
                 ELSE "ValueError"]

RECURSIVE Flatten(_)
Flatten(ss) == IF ss = <<>> THEN <<>> ELSE Head(ss) \o Flatten(Tail(ss))

\* ------------------------------------------------------------ unit scale
\* one pixel per inch, whatever the scale
to_px_unscaled(inches, sc) == IntTrunc(inches, Milli)

\* a conversion to the nearest pixel
to_px_rounded(inches, sc) == RoundDiv(inches * sc.n, sc.d)

\* to_px(inches) = int(inches * scale), scale = width_px / door_w_inches
to_px(inches, sc) == IntTrunc(inches * sc.n, sc.d)

\* a height rounded to the nearest integer
HeightPx_rounded(door_h_inches, sc) == RoundDiv(door_h_inches * sc.n, sc.d)

\* height_px = int(door_h_inches * scale)
HeightPx(door_h_inches, sc) == IntTrunc(door_h_inches * sc.n, sc.d)

\* ------------------------------------------------------------- base layer
Clamp(c) == Max(0, Min(255, c))

\* In double arithmetic 139 * 0.6 is 83.39999999999999 and its sum with
\* s * 0.4 stays just below the integer the exact sum is, for these s; for
\* every other channel w of the palette and s in -15..255 the double sum
\* has the integer part of the exact sum.
FallsShort(w, s) == w = 139 /\ s \in {-11, -6, -1, 4, 9, 14, 19}

\* a blend rounded to the nearest integer
Blend_rounded(wood_base, stain_rgb) ==
    [k \in 1..3 |-> RoundDiv(6 * wood_base[k] + 4 * stain_rgb[k], 10)]

\* int(w * 0.6 + s * 0.4) per channel
Blend(wood_base, stain_rgb) ==
    [k \in 1..3 |->
        IntTrunc(6 * wood_base[k] + 4 * stain_rgb[k], 10)
        - (IF FallsShort(wood_base[k], stain_rgb[k]) THEN 1 ELSE 0)]

\* a fallback to another palette entry
WoodBase_oakDefault(wood_type) == Get(WOOD_COLORS, wood_type, <<160, 130, 90>>)

\* WOOD_COLORS.get(wood_type, (139, 115, 85))
WoodBase(wood_type) == Get(WOOD_COLORS, wood_type, <<139, 115, 85>>)

groove_color(bl) == [k \in 1..3 |-> Max(0, bl[k] - 50)]
highlight_color(bl) == [k \in 1..3 |-> Min(255, bl[k] + 20)]

\* len(range(0, n, step))
RangeLen(n, step) == IF n <= 0 THEN 0 ELSE (n + step - 1) \div step

\* for x in range(0, width_px, 3): two draws from the generator per line
GrainV(w, h, bl, s) ==
    [ops |-> [j \in 1..RangeLen(w, 3) |->
                LET x       == 3 * (j - 1)
                    opacity == randint(RngSkip(s, 2 * (j - 1)), 5, 25)
                    shift   == randint(opacity.state, -10, 10)
                    grain   == <<Clamp(bl[1] + shift.val), Clamp(bl[2] + shift.val),
                                 Clamp(bl[3] + shift.val), opacity.val + 200>>
                IN  Line(x, 0, x, h, grain, 1, "grain-v")],
     rng |-> RngSkip(s, 2 * RangeLen(w, 3))]

\* for y in range(0, height_px, 7)
GrainH(w, h, bl, s) ==
    [ops |-> [j \in 1..RangeLen(h, 7) |->
                LET y       == 7 * (j - 1)
                    opacity == randint(RngSkip(s, 2 * (j - 1)), 3, 15)
                    shift   == randint(opacity.state, -8, 8)
                    grain   == <<Clamp(bl[1] + shift.val), Clamp(bl[2] + shift.val),
                                 Clamp(bl[3] + shift.val), opacity.val + 230>>
                IN  Line(0, y, w, y, grain, 1, "grain-h")],
     rng |-> RngSkip(s, 2 * RangeLen(h, 7))]

\* ------------------------------------------------------------ elements
\* e["position"]["x"], e["size"]["width"], ... raise KeyError on a dict
\* that lacks the key
HasGeometry(e) == "position" \in DOMAIN e /\ "size" \in DOMAIN e

\* a selection that takes an element of any other type for a panel
SelectType_otherAsPanel(elements, t) ==
    SelectSeq(elements,
              LAMBDA e : \/ e["type"] = t
                         \/ /\ t = "recessed-panel"
                            /\ e["type"] \notin {"groove", "glass-panel"})

\* locals panels, grooves, glass_panels: list comprehensions over elements
SelectType(elements, t) == SelectSeq(elements, LAMBDA e : e["type"] = t)

\* lists that hold the elements of each kind last-to-first
Partitioned_reversed(elements) ==
    LET Rev(q) == [k \in 1..Len(q) |-> q[Len(q) + 1 - k]]
    IN  [panels |-> Rev(SelectType(elements, "recessed-panel")),
         grooves |-> Rev(SelectType(elements, "groove")),
         glass |-> Rev(SelectType(elements, "glass-panel"))]

\* the three list comprehensions over elements
Partitioned(elements) ==
    [panels |-> SelectType(elements, "recessed-panel"),
     grooves |-> SelectType(elements, "groove"),
     glass |-> SelectType(elements, "glass-panel")]

\* an interpolation that starts at b and ends next to a
Mix_reversed(a, b, i, bevel_w) ==
    [k \in 1..3 |->
        IntTrunc(a[k] * i + b[k] * (Max(bevel_w, 1) - i), Max(bevel_w, 1))]

\* int(a * (1 - t) + b * t) per channel, with t = i / max(bevel_w, 1)
Mix(a, b, i, bevel_w) ==
    [k \in 1..3 |->
        IntTrunc(a[k] * (Max(bevel_w, 1) - i) + b[k] * i, Max(bevel_w, 1))]

\* a bevel width without the minimum
BevelWidth_unclamped(depth) == IntTrunc(depth * 6, Milli)

\* bevel_w = max(2, int(depth * 6))
BevelWidth(depth) == Max(2, IntTrunc(depth * 6, Milli))

\* one iteration of "for p in panels"
PanelOps(p, sc, bl) ==
    IF ~HasGeometry(p) THEN <<Raise("KeyError")>>
    ELSE
    LET x1 == to_px(p.position.x, sc)
        y1 == to_px(p.position.y, sc)
        x2 == x1 + to_px(p.size.width, sc)
        y2 == y1 + to_px(p.size.height, sc)
        depth == Get(p, "depth", 375)
        slight_darken == IntTrunc(depth * 8, Milli)
        panel_color == [k \in 1..3 |-> Max(0, bl[k] - slight_darken)]
        bevel_w == BevelWidth(depth)
        shadow_dark == [k \in 1..3 |-> Max(0, bl[k] - 40 - IntTrunc(depth * 25, Milli))]
        shadow_mid == [k \in 1..3 |-> Max(0, bl[k] - 25 - IntTrunc(depth * 15, Milli))]
        highlight_bright == [k \in 1..3 |-> Min(255, bl[k] + 30 + IntTrunc(depth * 15, Milli))]
        highlight_soft == [k \in 1..3 |-> Min(255, bl[k] + 15 + IntTrunc(depth * 8, Milli))]
        shadows == [j \in 1..(2 * bevel_w) |->
                      LET i == (j - 1) \div 2
                          shadow == Mix(shadow_dark, shadow_mid, i, bevel_w)
                      IN  IF j % 2 = 1
                          THEN Line(x1 + i, y1 + i, x2 - i, y1 + i, shadow, 1, "panel-top")
                          ELSE Line(x1 + i, y1 + i, x1 + i, y2 - i, shadow, 1, "panel-left")]
        highlights == [j \in 1..(2 * bevel_w) |->
                      LET i == (j - 1) \div 2
                          hl == Mix(highlight_bright, highlight_soft, i, bevel_w)
                      IN  IF j % 2 = 1
                          THEN Line(x1 + i, y2 - i, x2 - i, y2 - i, hl, 1, "panel-bottom")
                          ELSE Line(x2 - i, y1 + i, x2 - i, y2 - i, hl, 1, "panel-right")]
    IN  <<Rect(x1, y1, x2, y2, panel_color, "panel-fill")>> \o shadows \o highlights

\* a groove span without the minimum
GrooveSpan_unclamped(px) == px

\* max(to_px(...), 2): a groove spans at least 2 pixels on each axis
GrooveSpan(px) == Max(px, 2)

\* a groove whose highlight line is drawn on the last filled column or row
GrooveOps_onEdge(g, sc, bl) ==
    IF ~HasGeometry(g) THEN <<Raise("KeyError")>>
    ELSE
    LET x1 == to_px(g.position.x, sc)
        y1 == to_px(g.position.y, sc)
        x2 == x1 + GrooveSpan(to_px(g.size.width, sc))
        y2 == y1 + GrooveSpan(to_px(g.size.height, sc))
        direction == Get(g, "direction", "horizontal")
    IN  <<Rect(x1, y1, x2, y2, groove_color(bl), "groove-fill"),
          IF direction = "vertical"
          THEN Line(x2, y1, x2, y2, highlight_color(bl), 1, "groove-highlight")
          ELSE Line(x1, y2, x2, y2, highlight_color(bl), 1, "groove-highlight")>>

\* one iteration of "for g in grooves"
GrooveOps(g, sc, bl) ==
    IF ~HasGeometry(g) THEN <<Raise("KeyError")>>
    ELSE
    LET x1 == to_px(g.position.x, sc)
        y1 == to_px(g.position.y, sc)
        x2 == x1 + GrooveSpan(to_px(g.size.width, sc))
        y2 == y1 + GrooveSpan(to_px(g.size.height, sc))
        direction == Get(g, "direction", "horizontal")
    IN  <<Rect(x1, y1, x2, y2, groove_color(bl), "groove-fill"),
          IF direction = "vertical"
          THEN Line(x2 + 1, y1, x2 + 1, y2, highlight_color(bl), 1, "groove-highlight")
          ELSE Line(x1, y2 + 1, x2, y2 + 1, highlight_color(bl), 1, "groove-highlight")>>

\* a glass panel whose streak is left out when it would leave the panel
GlassOps_streakInside(gp, sc) ==
    IF ~HasGeometry(gp) THEN <<Raise("KeyError")>>
    ELSE
    LET x1 == to_px(gp.position.x, sc)
        y1 == to_px(gp.position.y, sc)
        x2 == x1 + to_px(gp.size.width, sc)
        y2 == y1 + to_px(gp.size.height, sc)
        glass_type == Get(gp, "glassType", "frosted")
        color == Get(GLASS_COLORS, glass_type, GLASS_COLORS["frosted"])
    IN  <<Rect(x1, y1, x2, y2, color, "glass-fill")>> \o
        (IF y1 + 80 <= y2 /\ x1 + 5 <= x2 - 2
         THEN <<Line(x1 + 5, y1 + 20, x2 - 2, y1 + 80, <<255, 255, 255, 60>>, 2,
                     "glass-streak")>>
         ELSE <<>>)

\* one iteration of "for gp in glass_panels", drawn on glass_overlay
GlassOps(gp, sc) ==
    IF ~HasGeometry(gp) THEN <<Raise("KeyError")>>
    ELSE
    LET x1 == to_px(gp.position.x, sc)
        y1 == to_px(gp.position.y, sc)
        x2 == x1 + to_px(gp.size.width, sc)
        y2 == y1 + to_px(gp.size.height, sc)
        glass_type == Get(gp, "glassType", "frosted")
        color == Get(GLASS_COLORS, glass_type, GLASS_COLORS["frosted"])
    IN  <<Rect(x1, y1, x2, y2, color, "glass-fill"),
          Line(x1 + 5, y1 + 20, x2 - 2, y1 + 80, <<255, 255, 255, 60>>, 2, "glass-streak")>>

\* ------------------------------------------------------------ handle
DefaultHandle ==
    [style |-> "long-pull", finish |-> "matte-black", side |-> "left",
     heightFromBottom |-> 40 * Milli]

HandleColor(handle_finish) == Get(HANDLE_COLORS, handle_finish, <<30, 30, 30>>)

\* inset = 5.5 inches from the edge
Inset == 5500

\* handle_x
HandleX(handle_side, width_px, sc) ==
    IF handle_side = "left" THEN to_px(Inset, sc) - 3
    ELSE width_px - to_px(Inset, sc) - 3

\* a bar whose lower bracket hangs below the bar's bottom
BarOps_bracketBelow(hx, cy, half_h, bar_w, bracket_h, h_color) ==
    LET h_highlight == [k \in 1..3 |-> Min(255, h_color[k] + 60)]
        h_shadow == [k \in 1..3 |-> Max(0, h_color[k] - 15)]
    IN  <<Rect(hx + 3, cy - half_h + 3, hx + bar_w + 3, cy + half_h + 3,
               h_shadow \o <<100>>, "handle-shadow"),
          Rect(hx, cy - half_h, hx + bar_w, cy + half_h, h_color, "handle-bar"),
          Line(hx + 1, cy - half_h, hx + 1, cy + half_h, h_highlight, 1, "handle-highlight"),
          Rect(hx - 2, cy - half_h, hx + bar_w + 2, cy - half_h + bracket_h,
               h_shadow, "handle-bracket"),
          Rect(hx - 2, cy + half_h, hx + bar_w + 2, cy + half_h + bracket_h,
               h_shadow, "handle-bracket")>>

\* the bar of long-pull and square-pull: shadow, bar, highlight, brackets
BarOps(hx, cy, half_h, bar_w, bracket_h, h_color) ==
    LET h_highlight == [k \in 1..3 |-> Min(255, h_color[k] + 60)]
        h_shadow == [k \in 1..3 |-> Max(0, h_color[k] - 15)]
    IN  <<Rect(hx + 3, cy - half_h + 3, hx + bar_w + 3, cy + half_h + 3,
               h_shadow \o <<100>>, "handle-shadow"),
          Rect(hx, cy - half_h, hx + bar_w, cy + half_h, h_color, "handle-bar"),
          Line(hx + 1, cy - half_h, hx + 1, cy + half_h, h_highlight, 1, "handle-highlight"),
          Rect(hx - 2, cy - half_h, hx + bar_w + 2, cy - half_h + bracket_h,
               h_shadow, "handle-bracket"),
          Rect(hx - 2, cy + half_h - bracket_h, hx + bar_w + 2, cy + half_h,
               h_shadow, "handle-bracket")>>

\* a chain whose recess is tinted by the handle finish
HandleOps_tintedRecess(handle, width_px, h_px, sc, bl) ==
    LET handle_style == Get(handle, "style", "long-pull")
        handle_finish == Get(handle, "finish", "matte-black")
        handle_side == Get(handle, "side", "left")
        handle_height_from_bottom == Get(handle, "heightFromBottom", 40 * Milli)
        h_color == HandleColor(handle_finish)
        handle_x == HandleX(handle_side, width_px, sc)
        handle_center_y == h_px - to_px(handle_height_from_bottom, sc)
    IN  IF handle_style = "long-pull"
        THEN BarOps(handle_x, handle_center_y, to_px(24 * Milli, sc),
                    Max(to_px(750, sc), 6), to_px(1500, sc), h_color)
        ELSE IF handle_style = "square-pull"
        THEN BarOps(handle_x, handle_center_y, to_px(6 * Milli, sc),
                    Max(to_px(1000, sc), 8), to_px(1000, sc), h_color)
        ELSE IF handle_style = "recessed-pull"
        THEN LET half_h == to_px(4 * Milli, sc)
                 recess_w == Max(to_px(1500, sc), 10)
                 recess_color == [k \in 1..3 |-> Max(0, h_color[k] - 30)]
             IN  <<Rect(handle_x, handle_center_y - half_h,
                        handle_x + recess_w, handle_center_y + half_h,
                        recess_color, "handle-recess"),
                   Line(handle_x, handle_center_y - half_h,
                        handle_x + recess_w, handle_center_y - half_h,
                        groove_color(bl), 2, "handle-inner-shadow")>>
        ELSE <<>>

\* the if / elif chain on handle_style
HandleOps(handle, width_px, h_px, sc, bl) ==
    LET handle_style == Get(handle, "style", "long-pull")
        handle_finish == Get(handle, "finish", "matte-black")
        handle_side == Get(handle, "side", "left")
        handle_height_from_bottom == Get(handle, "heightFromBottom", 40 * Milli)
        h_color == HandleColor(handle_finish)
        handle_x == HandleX(handle_side, width_px, sc)
        handle_center_y == h_px - to_px(handle_height_from_bottom, sc)
    IN  IF handle_style = "long-pull"
        THEN BarOps(handle_x, handle_center_y, to_px(24 * Milli, sc),
                    Max(to_px(750, sc), 6), to_px(1500, sc), h_color)
        ELSE IF handle_style = "square-pull"
        THEN BarOps(handle_x, handle_center_y, to_px(6 * Milli, sc),
                    Max(to_px(1000, sc), 8), to_px(1000, sc), h_color)
        ELSE IF handle_style = "recessed-pull"
        THEN LET half_h == to_px(4 * Milli, sc)
                 recess_w == Max(to_px(1500, sc), 10)
                 recess_color == [k \in 1..3 |-> Max(0, bl[k] - 30)]
             IN  <<Rect(handle_x, handle_center_y - half_h,
                        handle_x + recess_w, handle_center_y + half_h,
                        recess_color, "handle-recess"),
                   Line(handle_x, handle_center_y - half_h,
                        handle_x + recess_w, handle_center_y - half_h,
                        groove_color(bl), 2, "handle-inner-shadow")>>
        ELSE <<>>

\* ------------------------------------------------------------ lighting
\* a gradient whose last row has t = 1
GradientOps_inclusive(width_px, h_px) ==
    <<NewImage(width_px, h_px, <<0, 0, 0, 0>>, "gradient")>> \o
    [j \in 1..Max(h_px, 0) |->
        Line(0, j - 1, width_px, j - 1,
             <<0, 0, 0, IntTrunc((j - 1) * 30, Max(h_px - 1, 1))>>, 0, "gradient")]

\* for y in range(height_px): alpha = int(y / height_px * 30)
GradientOps(width_px, h_px) ==
    <<NewImage(width_px, h_px, <<0, 0, 0, 0>>, "gradient")>> \o
    [j \in 1..Max(h_px, 0) |->
        Line(0, j - 1, width_px, j - 1, <<0, 0, 0, IntTrunc((j - 1) * 30, h_px)>>,
             0, "gradient")]

\* ------------------------------------------------------------ inputs
\* Optional arguments: <<>> is None, <<v>> is the value v.
None == <<>>
Some(v) == <<v>>

CallArg(w, dw, dh, wood, stain, elements, handle) ==
    [width_px |-> w, door_w_inches |-> dw, door_h_inches |-> dh,
     wood_type |-> wood, stain_color |-> stain,
     elements |-> elements, handle |-> handle]

\* (width_px, door_w_inches, door_h_inches), inches in thousandths
DefaultDims == <<24, 36 * Milli, 80 * Milli>>
ValidDimsSet ==
    {DefaultDims, <<25, 36 * Milli, 80 * Milli>>, <<60, 4 * Milli, 8 * Milli>>,
     <<266, 36 * Milli, 80 * Milli>>, <<6, 4 * Milli, 8 * Milli>>}
InvalidDimsSet ==
    {<<0, 36 * Milli, 80 * Milli>>, <<-24, 36 * Milli, 80 * Milli>>,
     <<24, 0, 80 * Milli>>, <<24, -36 * Milli, 80 * Milli>>,
     <<24, 36 * Milli, 0>>, <<24, 36 * Milli, -80 * Milli>>,
     <<24, -36 * Milli, -80 * Milli>>}
HandleDims == {DefaultDims, <<60, 4 * Milli, 8 * Milli>>, <<266, 36 * Milli, 80 * Milli>>}
ElementDims == <<60, 4 * Milli, 8 * Milli>>

DefaultStain == <<"#", "8", "B", "7", "3", "5", "5">>
Stains ==
    {DefaultStain,
     <<"3", "B", "2", "3", "1", "4">>,
     <<"8", "B", "7", "3", "5", "5", "F", "F">>,
     <<"#", "#", "8", "B", "7", "3", "5", "5">>,
     <<"+", "5", "+", "5", "+", "5">>,
     <<" ", "1", " ", "2", " ", "3">>,
     <<"a", "b", "c">>,
     <<"z", "z", "z", "z", "z", "z">>,
     <<>>}
Woods == {"maple", "walnut", "white-oak", "teak"}

Styles == {"long-pull", "square-pull", "recessed-pull", "lever"}
Finishes == {"matte-black", "brass", "chrome"}
Sides == {"left", "right"}
Handles ==
    {[style |-> st, finish |-> f, side |-> sd, heightFromBottom |-> 40 * Milli] :
        st \in Styles, f \in Finishes, sd \in Sides}
    \cup {[side |-> "right"], [finish |-> "brass", heightFromBottom |-> 36 * Milli]}

Pos(x, y) == [x |-> x, y |-> y]
Size(w, h) == [width |-> w, height |-> h]
ElemPanel ==
    [type |-> "recessed-panel", position |-> Pos(1000, 1000),
     size |-> Size(2000, 3000), depth |-> 500]
ElemGroove ==
    [type |-> "groove", position |-> Pos(1500, 1000), size |-> Size(500, 3000),
     direction |-> "vertical", depth |-> 250]
ElemThinGroove ==
    [type |-> "groove", position |-> Pos(2500, 500), size |-> Size(10, 3000)]
ElemGlass ==
    [type |-> "glass-panel", position |-> Pos(1000, 2000),
     size |-> Size(2000, 2000), glassType |-> "frosted"]
ElemOddGlass ==
    [type |-> "glass-panel", position |-> Pos(500, 500),
     size |-> Size(1000, 1000), glassType |-> "stained"]
ElemInlay ==
    [type |-> "inlay", position |-> Pos(0, 0), size |-> Size(1000, 1000)]
ElemNoSize ==
    [type |-> "groove", position |-> Pos(0, 7000)]
ElemSet ==
    {ElemPanel, ElemGroove, ElemThinGroove, ElemGlass, ElemOddGlass,
     ElemInlay, ElemNoSize}

\* elements whose size converts to a zero or negative pixel span
ElemFlatPanel ==
    [type |-> "recessed-panel", position |-> Pos(1000, 1000), size |-> Size(0, 2000)]
ElemBackPanel ==
    [type |-> "recessed-panel", position |-> Pos(2000, 2000),
     size |-> Size(-1000, 2000), depth |-> 250]
ElemBackGroove ==
    [type |-> "groove", position |-> Pos(2000, 2000), size |-> Size(-1000, 0)]
ElemFlatGlass ==
    [type |-> "glass-panel", position |-> Pos(1000, 1000), size |-> Size(2000, 0)]
ElemBackGlass ==
    [type |-> "glass-panel", position |-> Pos(2000, 4000), size |-> Size(1000, -2000)]
SpanElems == {ElemFlatPanel, ElemBackPanel, ElemBackGroove, ElemFlatGlass, ElemBackGlass}

\* a panel of every depth from 0 to 1 in steps of 0.05
Depths == {50 * k : k \in 0..20}
DepthPanels ==
    {[type |-> "recessed-panel", position |-> Pos(1000, 1000),
      size |-> Size(2000, 3000), depth |-> d] : d \in Depths}

\* the template of the documented example, rendered at width 266
ExamplePanel ==
    [type |-> "recessed-panel", position |-> Pos(8000, 5000),
     size |-> Size(17000, 10000), depth |-> 500]
ExampleCall ==
    CallArg(266, 36 * Milli, 80 * Milli, "maple", DefaultStain,
            Some(<<ExamplePanel>>), Some(DefaultHandle))

\* lists of distinct elements, at most MaxElems long
ElementLists ==
    UNION {{s \in [1..n -> ElemSet] : \A i, j \in 1..n : i # j => s[i] # s[j]} :
             n \in 0..MaxElems}

\* every order of the overlapping panel, groove and glass panel
LayeredLists ==
    {s \in [1..3 -> {ElemPanel, ElemGroove, ElemGlass}] :
        \A i, j \in 1..3 : i # j => s[i] # s[j]}

CallArgs ==
    {CallArg(d[1], d[2], d[3], "maple", DefaultStain, None, None) :
        d \in ValidDimsSet \cup InvalidDimsSet}
    \cup {CallArg(DefaultDims[1], DefaultDims[2], DefaultDims[3], w, s, Some(<<>>), None) :
        w \in Woods, s \in Stains}
    \cup {CallArg(d[1], d[2], d[3], "maple", DefaultStain, None, Some(h)) :
        d \in HandleDims, h \in Handles}
    \cup {CallArg(ElementDims[1], ElementDims[2], ElementDims[3], "maple",
                  DefaultStain, Some(es), None) : es \in ElementLists \cup LayeredLists}
    \cup {ExampleCall}
    \cup {CallArg(ElementDims[1], ElementDims[2], ElementDims[3], "maple",
                  DefaultStain, Some(<<e>>), None) : e \in SpanElems \cup DepthPanels}
    \cup {CallArg(ElementDims[1], ElementDims[2], ElementDims[3], "maple",
                  DefaultStain, Some(<<ElemFlatPanel, ElemPanel>>), None),
          CallArg(ElementDims[1], ElementDims[2], ElementDims[3], "maple",
                  DefaultStain, Some(<<ElemPanel, ElemFlatPanel>>), None),
          CallArg(ElementDims[1], ElementDims[2], ElementDims[3], "walnut",
                  <<"3", "B", "2", "3", "1", "4">>, Some(<<ElemPanel>>), None)}
    \cup {CallArg(DefaultDims[1], DefaultDims[2], DefaultDims[3], "teak",
                  DefaultStain, Some(<<e>>),
                  Some([style |-> "square-pull", finish |-> "chrome"])) :
        e \in ElemSet}

\* if elements is None: elements = []
Elements(a) == IF a.elements = None THEN <<>> ELSE a.elements[1]

\* if handle is None: handle = {...}
Handle(a) == IF a.handle = None THEN DefaultHandle ELSE a.handle[1]

\* The template of a with every unknown wood type, finish and glass type
\* spelled as the name the palettes fall back to.
SpelledOut(a) ==
    [a EXCEPT
       !.wood_type = IF @ \in DOMAIN WOOD_COLORS THEN @ ELSE "maple",
       !.handle = IF @ = None \/ "finish" \notin DOMAIN @[1]
                     \/ @[1]["finish"] \in DOMAIN HANDLE_COLORS
                  THEN @ ELSE Some([@[1] EXCEPT !["finish"] = "matte-black"]),
       !.elements = IF @ = None THEN @
                    ELSE Some([k \in 1..Len(@[1]) |->
                           LET e == @[1][k]
                           IN  IF "glassType" \in DOMAIN e
                                  /\ e["glassType"] \notin DOMAIN GLASS_COLORS
                               THEN [e EXCEPT !["glassType"] = "frosted"]
                               ELSE e])]

\* The template of a with the handle on the other side.
FlipSide(a) ==
    IF a.handle = None THEN a
    ELSE [a EXCEPT !.handle =
            Some([k \in DOMAIN @[1] \cup {"side"} |->
                    IF k = "side"
                    THEN (IF Get(@[1], "side", "left") = "left" THEN "right" ELSE "left")
                    ELSE @[1][k]])]

\* A session renders one template, then the same template again, its
\* spelled-out form or its form with the handle on the other side.
Related(a) == {a, SpelledOut(a), FlipSide(a)}

\* the generator's state when the session starts: left by earlier use
RngInits == {31337}

\* ------------------------------------------------------------ state machine
NoFile == [state |-> "absent", image |-> <<>>]
NoBuckets == [panels |-> <<>>, grooves |-> <<>>, glass |-> <<>>]
NoScale == [n |-> 0, d |-> 1]
NoArgs == CallArg(0, 0, 0, "", <<>>, None, None)

\* Image.new and Image.alpha_composite each return an image of its own.
\* The images the name img is bound to in turn are numbered 1, 2, ...: img
\* is the one it names now, draw the one the context named draw draws on,
\* lost the operations drawn on an image that img no longer names.
NoBinding == [img |-> 0, draw |-> 0, lost |-> <<>>]

\* a context left on the image it was made for
Rebind_stale(old, image) == old

\* draw = ImageDraw.Draw(img) after the composite: the name draw is bound
\* to a context on the new image
Rebind(old, image) == image

\* a generation script that has not been started: key is whether
\* GOOGLE_AI_API_KEY is set, n the number of variants asked for, i and m the
\* variant and the model being tried, log the attempts made so far, files
\* the state of each variant file, composite that of composite.png
NoJob ==
    [pc |-> "idle", key |-> FALSE, n |-> 0, i |-> 0, m |-> 0, log |-> <<>>,
     files |-> <<>>, composite |-> "absent"]

\* the threads that render concurrently, and the locals of one not yet started
Threads == {"t1", "t2"}
IdleWorker ==
    [pc |-> "idle", args |-> NoArgs, scale |-> NoScale, height_px |-> 0,
     blended |-> <<0, 0, 0>>, img |-> <<>>, k |-> 0, opacity |-> 0,
     err |-> "", ret |-> None]

Init ==
    /\ pc = "idle"
    /\ args = NoArgs
    /\ calls = 0
    /\ strictRect \in BOOLEAN
    /\ rng \in RngInits
    /\ scale = NoScale
    /\ height_px = 0
    /\ blended = <<0, 0, 0>>
    /\ img = <<>>
    /\ buckets = NoBuckets
    /\ stages = <<>>
    /\ err = ""
    /\ file = NoFile
    /\ ret = None
    /\ prev = None
    /\ workers = [t \in Threads |-> IdleWorker]
    /\ binding = NoBinding
    /\ job = NoJob

\* grooves drawn before panels
StageAfter_groovesFirst ==
    ("scale" :> "blend") @@ ("blend" :> "canvas") @@ ("canvas" :> "grain-v") @@
    ("grain-v" :> "grain-h") @@ ("grain-h" :> "partition") @@
    ("partition" :> "grooves") @@ ("grooves" :> "panels") @@
    ("panels" :> "glass") @@ ("glass" :> "handle") @@ ("handle" :> "lighting") @@
    ("lighting" :> "save") @@ ("save" :> "done")

\* the file written before the handle and the lighting
StageAfter_saveEarly ==
    ("scale" :> "blend") @@ ("blend" :> "canvas") @@ ("canvas" :> "grain-v") @@
    ("grain-v" :> "grain-h") @@ ("grain-h" :> "partition") @@
    ("partition" :> "panels") @@ ("panels" :> "grooves") @@
    ("grooves" :> "glass") @@ ("glass" :> "save") @@ ("save" :> "handle") @@
    ("handle" :> "lighting") @@ ("lighting" :> "done")

\* the handle drawn before the glass overlay is composited
StageAfter_handleBeforeGlass ==
    ("scale" :> "blend") @@ ("blend" :> "canvas") @@ ("canvas" :> "grain-v") @@
    ("grain-v" :> "grain-h") @@ ("grain-h" :> "partition") @@
    ("partition" :> "panels") @@ ("panels" :> "grooves") @@
    ("grooves" :> "handle") @@ ("handle" :> "glass") @@ ("glass" :> "lighting") @@
    ("lighting" :> "save") @@ ("save" :> "done")

\* The statements of render_door_slab in program order: the position that
\* follows each stage.
StageAfter ==
    ("scale" :> "blend") @@ ("blend" :> "canvas") @@ ("canvas" :> "grain-v") @@
    ("grain-v" :> "grain-h") @@ ("grain-h" :> "partition") @@
    ("partition" :> "panels") @@ ("panels" :> "grooves") @@
    ("grooves" :> "glass") @@ ("glass" :> "handle") @@ ("handle" :> "lighting") @@
    ("lighting" :> "save") @@ ("save" :> "done")

\* an exception leaves render_door_slab: nothing after it runs
Fail(e) ==
    /\ pc' = "raised"
    /\ err' = e

Advance(stage) ==
    /\ pc' = StageAfter[stage]
    /\ stages' = Append(stages, stage)
    /\ err' = err

\* render_door_slab(output_path, width_px, ...) is entered
Call ==
    /\ pc \in {"idle", "done", "raised"}
    /\ calls < MaxCalls
    /\ \E a \in (IF calls = 0 THEN CallArgs ELSE Related(args)) : args' = a
    /\ calls' = calls + 1
    /\ prev' = IF calls = 0 THEN None
               ELSE Some([args |-> args, ok |-> pc = "done", err |-> err,
                          image |-> IF ret = None THEN <<>> ELSE ret[1]])
    /\ pc' = "scale"
    /\ scale' = NoScale
    /\ height_px' = 0
    /\ blended' = <<0, 0, 0>>
    /\ img' = <<>>
    /\ buckets' = NoBuckets
    /\ stages' = <<>>
    /\ err' = ""
    /\ file' = NoFile
    /\ ret' = None
    /\ binding' = NoBinding
    /\ UNCHANGED <<strictRect, rng, workers, job>>

\* scale = width_px / door_w_inches; height_px = int(door_h_inches * scale)
ResolveScale ==
    /\ pc = "scale"
    /\ IF args.door_w_inches = 0
       THEN /\ Fail("ZeroDivisionError")
            /\ UNCHANGED <<scale, height_px, stages>>
       ELSE /\ scale' = [n |-> args.width_px, d |-> args.door_w_inches]
            /\ height_px' = HeightPx(args.door_h_inches, scale')
            /\ Advance("scale")
    /\ UNCHANGED <<args, calls, strictRect, rng, blended, img, buckets, file, ret,
                   prev, workers, binding, job>>

\* wood_base, stain_rgb = hex_to_rgb(stain_color), blended
BlendWood ==
    /\ pc = "blend"
    /\ LET stain_rgb == hex_to_rgb(args.stain_color)
       IN  IF ~stain_rgb.ok
           THEN /\ Fail("ValueError")
                /\ UNCHANGED <<blended, stages>>
           ELSE /\ blended' = Blend(WoodBase(args.wood_type), stain_rgb.rgb)
                /\ Advance("blend")
    /\ UNCHANGED <<args, calls, strictRect, rng, scale, height_px, img, buckets,
                   file, ret, prev, workers, binding, job>>

\* img = Image.new("RGBA", (width_px, height_px), blended + (255,));
\* draw = ImageDraw.Draw(img)
NewCanvas ==
    /\ pc = "canvas"
    /\ IF args.width_px < 0 \/ height_px < 0
       THEN /\ Fail("ValueError")
            /\ UNCHANGED <<img, stages, binding>>
       ELSE /\ img' = <<NewImage(args.width_px, height_px, blended \o <<255>>, "base")>>
            /\ binding' = [img |-> 1, draw |-> 1, lost |-> <<>>]
            /\ Advance("canvas")
    /\ UNCHANGED <<args, calls, strictRect, rng, scale, height_px, blended,
                   buckets, file, ret, prev, workers, job>>

\* random.seed(42) and the loop over every third column
GrainVertical ==
    /\ pc = "grain-v"
    /\ LET g == GrainV(args.width_px, height_px, blended, SeedGrain(rng))
       IN  /\ img' = img \o g.ops
           /\ rng' = g.rng
    /\ Advance("grain-v")
    /\ UNCHANGED <<args, calls, strictRect, scale, height_px, blended, buckets,
                   file, ret, prev, workers, binding, job>>

\* the loop over every seventh row
GrainHorizontal ==
    /\ pc = "grain-h"
    /\ LET g == GrainH(args.width_px, height_px, blended, rng)
       IN  /\ img' = img \o g.ops
           /\ rng' = g.rng
    /\ Advance("grain-h")
    /\ UNCHANGED <<args, calls, strictRect, scale, height_px, blended, buckets,
                   file, ret, prev, workers, binding, job>>

\* panels, grooves, glass_panels = the elements of each type
Partition ==
    /\ pc = "partition"
    /\ IF \E k \in 1..Len(Elements(args)) : "type" \notin DOMAIN Elements(args)[k]
       THEN /\ Fail("KeyError")
            /\ UNCHANGED <<buckets, stages>>
       ELSE /\ buckets' = Partitioned(Elements(args))
            /\ Advance("partition")
    /\ UNCHANGED <<args, calls, strictRect, rng, scale, height_px, blended, img,
                   file, ret, prev, workers, binding, job>>

\* a drawing loop through the context draw: its operations up to the first
\* that raises, on the image the context is bound to
DrawStage(ops, stage) ==
    LET r == RunDraw(ops, strictRect)
    IN  /\ IF binding.draw = binding.img
           THEN img' = img \o r.ops /\ binding' = binding
           ELSE img' = img /\ binding' = [binding EXCEPT !.lost = @ \o r.ops]
        /\ IF r.err # ""
           THEN Fail(r.err) /\ UNCHANGED stages
           ELSE Advance(stage)

\* for p in panels
DrawPanels ==
    /\ pc = "panels"
    /\ DrawStage(Flatten([k \in 1..Len(buckets.panels) |->
                            PanelOps(buckets.panels[k], scale, blended)]),
                 "panels")
    /\ UNCHANGED <<args, calls, strictRect, rng, scale, height_px, blended,
                   buckets, file, ret, prev, workers, job>>

\* for g in grooves
DrawGrooves ==
    /\ pc = "grooves"
    /\ DrawStage(Flatten([k \in 1..Len(buckets.grooves) |->
                            GrooveOps(buckets.grooves[k], scale, blended)]),
                 "grooves")
    /\ UNCHANGED <<args, calls, strictRect, rng, scale, height_px, blended,
                   buckets, file, ret, prev, workers, job>>

\* if glass_panels: overlay, for gp in glass_panels, alpha_composite
DrawGlass ==
    /\ pc = "glass"
    /\ IF buckets.glass = <<>>
       THEN /\ img' = img
            /\ binding' = binding
            /\ Advance("glass")
       ELSE LET r == RunDraw(Flatten([k \in 1..Len(buckets.glass) |->
                                        GlassOps(buckets.glass[k], scale)]),
                             strictRect)
                glass_overlay ==
                    <<NewImage(args.width_px, height_px, <<0, 0, 0, 0>>, "glass")>>
                    \o r.ops
            IN  IF r.err # ""
                THEN /\ Fail(r.err)
                     /\ UNCHANGED <<img, stages, binding>>
                ELSE /\ img' = Append(img, Composite(glass_overlay, "glass"))
                     /\ binding' = [binding EXCEPT
                                      !.img = @ + 1,
                                      !.draw = Rebind(@, binding.img + 1)]
                     /\ Advance("glass")
    /\ UNCHANGED <<args, calls, strictRect, rng, scale, height_px, blended,
                   buckets, file, ret, prev, workers, job>>

\* the handle
DrawHandle ==
    /\ pc = "handle"
    /\ DrawStage(HandleOps(Handle(args), args.width_px, height_px, scale, blended),
                 "handle")
    /\ UNCHANGED <<args, calls, strictRect, rng, scale, height_px, blended,
                   buckets, file, ret, prev, workers, job>>

\* gradient overlay, img = Image.alpha_composite(img, gradient)
Lighting ==
    /\ pc = "lighting"
    /\ img' = Append(img, Composite(GradientOps(args.width_px, height_px), "gradient"))
    /\ binding' = [binding EXCEPT !.img = @ + 1]
    /\ Advance("lighting")
    /\ UNCHANGED <<args, calls, strictRect, rng, scale, height_px, blended,
                   buckets, file, ret, prev, workers, job>>

\* final = img.convert("RGB")
Final(image) ==
    Append(image, [kind |-> "convert", xy |-> <<0, 0, 0, 0>>, fill |-> <<>>,
                   width |-> 0, site |-> "RGB", over |-> <<>>])

\* final.save(output_path); return final
Save ==
    /\ pc = "save"
    /\ file' = [state |-> "written", image |-> Final(img)]
    /\ ret' = Some(Final(img))
    /\ Advance("save")
    /\ UNCHANGED <<args, calls, strictRect, rng, scale, height_px, blended, img,
                   buckets, prev, workers, binding, job>>

\* final.save(output_path) raises: the write fails or the encoder rejects
\* the image; the file is missing or incomplete
SaveFail ==
    /\ pc = "save"
    /\ \E st \in {"absent", "partial"} : file' = [state |-> st, image |-> <<>>]
    /\ Fail("OSError")
    /\ UNCHANGED <<args, calls, strictRect, rng, scale, height_px, blended, img,
                   buckets, stages, ret, prev, workers, binding, job>>

Next ==
    \/ Call
    \/ ResolveScale
    \/ BlendWood
    \/ NewCanvas
    \/ GrainVertical
    \/ GrainHorizontal
    \/ Partition
    \/ DrawPanels
    \/ DrawGrooves
    \/ DrawGlass
    \/ DrawHandle
    \/ Lighting
    \/ Save
    \/ SaveFail

Spec == Init /\ [][Next]_vars

TypeOK ==
    /\ pc \in {"idle", "scale", "blend", "canvas", "grain-v", "grain-h", "partition",
               "panels", "grooves", "glass", "handle", "lighting", "save",
               "done", "raised"}
    /\ calls \in 0..MaxCalls
    /\ rng \in 0..(RngMod - 1)
    /\ file.state \in {"absent", "partial", "written"}

\* ------------------------------------------------------- concurrent renders
\* Threads of one process, each running render_door_slab once.  The locals
\* of a call are the thread's own; the module random and its generator are
\* the process's.  A thread is switched only between two calls into the
\* generator: seed and every randint are steps of their own.
\* (width_px, door_w_inches, door_h_inches) of the threads' renders
ThreadDims == {<<3, 4 * Milli, 8 * Milli>>, <<3, 4 * Milli, 16 * Milli>>}

ThreadArgs ==
    {CallArg(d[1], d[2], d[3], "maple", DefaultStain, None, None) : d \in ThreadDims}

\* grain = (clamped blended + shift ..., opacity + base)
GrainColor(bl, shift, alpha) ==
    <<Clamp(bl[1] + shift), Clamp(bl[2] + shift), Clamp(bl[3] + shift), alpha>>

\* The statements after the grain loops, which touch the call's locals
\* only: the element loops, the handle, the lighting gradient.
TailOps(a, sc, h_px, bl, strict) ==
    LET b       == Partitioned(Elements(a))
        panels  == RunDraw(Flatten([k \in 1..Len(b.panels) |->
                                      PanelOps(b.panels[k], sc, bl)]), strict)
        grooves == RunDraw(Flatten([k \in 1..Len(b.grooves) |->
                                      GrooveOps(b.grooves[k], sc, bl)]), strict)
        glass   == RunDraw(Flatten([k \in 1..Len(b.glass) |->
                                      GlassOps(b.glass[k], sc)]), strict)
        handle  == RunDraw(HandleOps(Handle(a), a.width_px, h_px, sc, bl), strict)
        overlay == <<NewImage(a.width_px, h_px, <<0, 0, 0, 0>>, "glass")>> \o glass.ops
        lit     == <<Composite(GradientOps(a.width_px, h_px), "gradient")>>
    IN  IF panels.err # "" THEN [ops |-> panels.ops, err |-> panels.err]
        ELSE IF grooves.err # ""
        THEN [ops |-> panels.ops \o grooves.ops, err |-> grooves.err]
        ELSE IF glass.err # ""
        THEN [ops |-> panels.ops \o grooves.ops, err |-> glass.err]
        ELSE LET drawn == panels.ops \o grooves.ops \o
                          (IF b.glass = <<>> THEN <<>>
                           ELSE <<Composite(overlay, "glass")>>)
             IN  IF handle.err # ""
                 THEN [ops |-> drawn \o handle.ops, err |-> handle.err]
                 ELSE [ops |-> drawn \o handle.ops \o lit, err |-> ""]

\* The image render_door_slab returns for arguments a when nothing else
\* uses the generator while it runs.
RenderAlone(a, strict) ==
    LET sc   == [n |-> a.width_px, d |-> a.door_w_inches]
        h_px == HeightPx(a.door_h_inches, sc)
        bl   == Blend(WoodBase(a.wood_type), hex_to_rgb(a.stain_color).rgb)
        gv   == GrainV(a.width_px, h_px, bl, SeedGrain(0))
        gh   == GrainH(a.width_px, h_px, bl, gv.rng)
        tail == TailOps(a, sc, h_px, bl, strict)
    IN  Final(<<NewImage(a.width_px, h_px, bl \o <<255>>, "base")>>
              \o gv.ops \o gh.ops \o tail.ops)

\* a thread enters render_door_slab: everything up to the canvas
TStart(t) ==
    /\ workers[t].pc = "idle"
    /\ \E a \in ThreadArgs :
         LET sc   == [n |-> a.width_px, d |-> a.door_w_inches]
             h_px == HeightPx(a.door_h_inches, sc)
             bl   == Blend(WoodBase(a.wood_type), hex_to_rgb(a.stain_color).rgb)
         IN  workers' = [workers EXCEPT ![t] =
                 [@ EXCEPT !.pc = "seed", !.args = a, !.scale = sc,
                           !.height_px = h_px, !.blended = bl,
                           !.img = <<NewImage(a.width_px, h_px, bl \o <<255>>, "base")>>]]
    /\ UNCHANGED <<pc, args, calls, strictRect, rng, scale, height_px, blended,
                   img, buckets, stages, err, file, ret, prev, binding, job>>

\* random.seed(42)
TSeed(t) ==
    /\ workers[t].pc = "seed"
    /\ rng' = SeedGrain(rng)
    /\ workers' = [workers EXCEPT ![t] = [@ EXCEPT !.pc = "grain-v", !.k = 0]]
    /\ UNCHANGED <<pc, args, calls, strictRect, scale, height_px, blended,
                   img, buckets, stages, err, file, ret, prev, binding, job>>

\* opacity = random.randint(5, 25) or random.randint(3, 15)
TOpacity(t) ==
    /\ workers[t].pc \in {"grain-v", "grain-h"}
    /\ LET r == IF workers[t].pc = "grain-v" THEN randint(rng, 5, 25)
                ELSE randint(rng, 3, 15)
       IN  /\ rng' = r.state
           /\ workers' = [workers EXCEPT ![t] =
                  [@ EXCEPT !.pc = IF @ = "grain-v" THEN "shift-v" ELSE "shift-h",
                            !.opacity = r.val]]
    /\ UNCHANGED <<pc, args, calls, strictRect, scale, height_px, blended,
                   img, buckets, stages, err, file, ret, prev, binding, job>>

\* shift = random.randint(...), the grain line, and the loop's next index
TShift(t) ==
    /\ workers[t].pc \in {"shift-v", "shift-h"}
    /\ LET w == workers[t]
           v == w.pc = "shift-v"
           r == IF v THEN randint(rng, -10, 10) ELSE randint(rng, -8, 8)
           line == IF v
                   THEN Line(3 * w.k, 0, 3 * w.k, w.height_px,
                             GrainColor(w.blended, r.val, w.opacity + 200), 1, "grain-v")
                   ELSE Line(0, 7 * w.k, w.args.width_px, 7 * w.k,
                             GrainColor(w.blended, r.val, w.opacity + 230), 1, "grain-h")
           last == IF v THEN w.k + 1 >= RangeLen(w.args.width_px, 3)
                   ELSE w.k + 1 >= RangeLen(w.height_px, 7)
           after == IF ~last THEN (IF v THEN "grain-v" ELSE "grain-h")
                    ELSE IF v /\ RangeLen(w.height_px, 7) > 0 THEN "grain-h"
                    ELSE "tail"
       IN  /\ rng' = r.state
           /\ workers' = [workers EXCEPT ![t] =
                  [@ EXCEPT !.pc = after, !.k = IF last THEN 0 ELSE @ + 1,
                            !.img = Append(@, line)]]
    /\ UNCHANGED <<pc, args, calls, strictRect, scale, height_px, blended,
                   img, buckets, stages, err, file, ret, prev, binding, job>>

\* the rest of the call: elements, handle, lighting, convert, save, return
TFinish(t) ==
    /\ workers[t].pc = "tail"
    /\ LET w == workers[t]
           tail == TailOps(w.args, w.scale, w.height_px, w.blended, strictRect)
       IN  workers' = [workers EXCEPT ![t] =
              IF tail.err # ""
              THEN [@ EXCEPT !.pc = "raised", !.err = tail.err, !.img = @ \o tail.ops]
              ELSE [@ EXCEPT !.pc = "done", !.img = @ \o tail.ops,
                             !.ret = Some(Final(w.img \o tail.ops))]]
    /\ UNCHANGED <<pc, args, calls, strictRect, rng, scale, height_px, blended,
                   img, buckets, stages, err, file, ret, prev, binding, job>>

\* ------------------------------------------------------- the blend alone
\* Calls of render_door_slab with every wood type of the palette, an
\* unknown one, and stains whose three channels are one value: every
\* two-digit value, and every signed digit that int(.., 16) accepts.
Hex16 == {"0", "1", "2", "3", "4", "5", "6", "7", "8", "9",
          "A", "B", "C", "D", "E", "F"}
BlendStains ==
    {<<"#", a, b, a, b, a, b>> : a, b \in Hex16}
    \cup {<<sg, a, sg, a, sg, a>> : sg \in {"+", "-"}, a \in Hex16}
BlendWoods == DOMAIN WOOD_COLORS \cup {"teak"}
BlendArgs ==
    {CallArg(DefaultDims[1], DefaultDims[2], DefaultDims[3], w, st, None, None) :
        w \in BlendWoods, st \in BlendStains}

\* render_door_slab is entered once
CallBlend ==
    /\ pc = "idle"
    /\ calls = 0
    /\ \E a \in BlendArgs : args' = a
    /\ calls' = 1
    /\ pc' = "scale"
    /\ UNCHANGED <<strictRect, rng, scale, height_px, blended, img, buckets,
                   stages, err, file, ret, prev, workers, binding, job>>

\* the call up to the blended colour
NextBlend ==
    \/ CallBlend
    \/ ResolveScale
    \/ BlendWood

SpecBlend == Init /\ [][NextBlend]_vars

NextThreads ==
    \E t \in Threads :
        \/ TStart(t)
        \/ TSeed(t)
        \/ TOpacity(t)
        \/ TShift(t)
        \/ TFinish(t)

SpecThreads == Init /\ [][NextThreads]_vars


\* ------------------------------------------------ the Metropolitan renderer
\* render_door_slab.py draws one template, Metropolitan, from module
\* constants.  Its scale, to_px, grain loops and lighting gradient are the
\* statements of the generic renderer word for word.
DOOR_W_INCHES == 36 * Milli
DOOR_H_INCHES == 80 * Milli
WOOD_COLOR == <<139, 115, 85>>
HANDLE_COLOR == <<30, 30, 30>>
GLASS_COLOR == <<180, 200, 210, 180>>
GROOVE_COLOR == <<70, 55, 40>>

Box(x, y, w, h) == [x |-> x, y |-> y, w |-> w, h |-> h]
GLASS_PANELS == <<Box(27000, 5000, 4000, 70000)>>
VERTICAL_GROOVES ==
    <<Box(8000, 5000, 500, 70000), Box(13500, 5000, 500, 70000),
      Box(19000, 5000, 500, 70000), Box(24500, 5000, 500, 70000)>>
HORIZONTAL_GROOVES ==
    <<Box(8000, 5000, 17000, 500), Box(8000, 14500, 17000, 500),
      Box(8000, 24000, 17000, 500), Box(8000, 33500, 17000, 500),
      Box(8000, 43000, 17000, 500), Box(8000, 52500, 17000, 500),
      Box(8000, 62000, 17000, 500), Box(8000, 71500, 17000, 500)>>
HANDLE == [side |-> "left", height_from_bottom |-> 40 * Milli, inset |-> 5500]

\* highlight = (min(255, WOOD_COLOR[k] + 20), ...)
MetroHighlight == [k \in 1..3 |-> Min(255, WOOD_COLOR[k] + 20)]

\* one iteration of "for g in VERTICAL_GROOVES"
VerticalGrooveOps(g, sc) ==
    LET x1 == to_px(g.x, sc)
        y1 == to_px(g.y, sc)
        x2 == x1 + Max(to_px(g.w, sc), 2)
        y2 == y1 + to_px(g.h, sc)
    IN  <<Rect(x1, y1, x2, y2, GROOVE_COLOR, "groove-fill"),
          Line(x2 + 1, y1, x2 + 1, y2, MetroHighlight, 1, "groove-highlight")>>

\* a horizontal groove as thin as its height converts
HorizontalGrooveOps_noFloor(g, sc) ==
    LET x1 == to_px(g.x, sc)
        y1 == to_px(g.y, sc)
        x2 == x1 + to_px(g.w, sc)
        y2 == y1 + to_px(g.h, sc)
    IN  <<Rect(x1, y1, x2, y2, GROOVE_COLOR, "groove-fill"),
          Line(x1, y2 + 1, x2, y2 + 1, MetroHighlight, 1, "groove-highlight")>>

\* one iteration of "for g in HORIZONTAL_GROOVES"
HorizontalGrooveOps(g, sc) ==
    LET x1 == to_px(g.x, sc)
        y1 == to_px(g.y, sc)
        x2 == x1 + to_px(g.w, sc)
        y2 == y1 + Max(to_px(g.h, sc), 2)
    IN  <<Rect(x1, y1, x2, y2, GROOVE_COLOR, "groove-fill"),
          Line(x1, y2 + 1, x2, y2 + 1, MetroHighlight, 1, "groove-highlight")>>

\* one iteration of "for gp in GLASS_PANELS", drawn on glass_overlay
MetroGlassOps(gp, sc) ==
    LET x1 == to_px(gp.x, sc)
        y1 == to_px(gp.y, sc)
        x2 == x1 + to_px(gp.w, sc)
        y2 == y1 + to_px(gp.h, sc)
    IN  <<Rect(x1, y1, x2, y2, GLASS_COLOR, "glass-fill"),
          Line(x1 + 5, y1 + 20, x2 - 2, y1 + 80, <<255, 255, 255, 60>>, 2, "glass-streak")>>

\* the long-pull bar on the left side
MetroHandleOps(h_px, sc) ==
    LET handle_x == to_px(HANDLE.inset, sc) - 3
        handle_center_y == h_px - to_px(HANDLE.height_from_bottom, sc)
        handle_half_h == to_px(24 * Milli, sc)
        handle_w == Max(to_px(750, sc), 6)
        bracket_h == to_px(1500, sc)
    IN  <<Rect(handle_x + 3, handle_center_y - handle_half_h + 3,
               handle_x + handle_w + 3, handle_center_y + handle_half_h + 3,
               <<15, 15, 15, 100>>, "handle-shadow"),
          Rect(handle_x, handle_center_y - handle_half_h,
               handle_x + handle_w, handle_center_y + handle_half_h,
               HANDLE_COLOR, "handle-bar"),
          Line(handle_x + 1, handle_center_y - handle_half_h,
               handle_x + 1, handle_center_y + handle_half_h,
               <<90, 90, 90>>, 1, "handle-highlight"),
          Rect(handle_x - 2, handle_center_y - handle_half_h,
               handle_x + handle_w + 2, handle_center_y - handle_half_h + bracket_h,
               <<25, 25, 25>>, "handle-bracket"),
          Rect(handle_x - 2, handle_center_y + handle_half_h - bracket_h,
               handle_x + handle_w + 2, handle_center_y + handle_half_h,
               <<25, 25, 25>>, "handle-bracket")>>

\* render_door_slab(output_path, width_px) of render_door_slab.py up to
\* final = img.convert("RGB"): the operations issued, the exception that
\* ended them if one did, and the generator's state afterwards
RenderMetropolitan(width_px, strict, s) ==
    LET sc   == [n |-> width_px, d |-> DOOR_W_INCHES]
        h_px == HeightPx(DOOR_H_INCHES, sc)
        gv   == GrainV(width_px, h_px, WOOD_COLOR, RngSeed(42))
        gh   == GrainH(width_px, h_px, WOOD_COLOR, gv.rng)
        grooves == RunDraw(
            Flatten([k \in 1..Len(VERTICAL_GROOVES) |->
                       VerticalGrooveOps(VERTICAL_GROOVES[k], sc)])
            \o Flatten([k \in 1..Len(HORIZONTAL_GROOVES) |->
                          HorizontalGrooveOps(HORIZONTAL_GROOVES[k], sc)]), strict)
        glass == RunDraw(Flatten([k \in 1..Len(GLASS_PANELS) |->
                                    MetroGlassOps(GLASS_PANELS[k], sc)]), strict)
        handle == RunDraw(MetroHandleOps(h_px, sc), strict)
        base == <<NewImage(width_px, h_px, WOOD_COLOR \o <<255>>, "base")>>
                \o gv.ops \o gh.ops \o grooves.ops
        overlay == <<NewImage(width_px, h_px, <<0, 0, 0, 0>>, "glass")>> \o glass.ops
        lit == <<Composite(GradientOps(width_px, h_px), "gradient")>>
    IN  IF width_px < 0 \/ h_px < 0
        THEN [ops |-> <<>>, err |-> "ValueError", rng |-> s]
        ELSE IF grooves.err # ""
        THEN [ops |-> base, err |-> grooves.err, rng |-> gh.rng]
        ELSE IF glass.err # ""
        THEN [ops |-> base, err |-> glass.err, rng |-> gh.rng]
        ELSE IF handle.err # ""
        THEN [ops |-> base \o <<Composite(overlay, "glass")>> \o handle.ops,
              err |-> handle.err, rng |-> gh.rng]
        ELSE [ops |-> Final(base \o <<Composite(overlay, "glass")>>
                            \o handle.ops \o lit),
              err |-> "", rng |-> gh.rng]

\* SIGNATURE_TEMPLATES["metropolitan"] of generate_all_signatures.py
MetroGroove(x, y, w, h, direction) ==
    [type |-> "groove", position |-> Pos(x, y), size |-> Size(w, h),
     direction |-> direction, depth |-> 250]
SIG_METROPOLITAN ==
    [wood_type |-> "maple",
     stain_color |-> <<"#", "8", "B", "7", "3", "5", "5">>,
     handle |-> [style |-> "long-pull", finish |-> "matte-black", side |-> "left",
                 heightFromBottom |-> 40 * Milli],
     elements |->
        <<[type |-> "glass-panel", position |-> Pos(27000, 5000),
           size |-> Size(4000, 70000), glassType |-> "frosted"],
          MetroGroove(8000, 5000, 500, 70000, "vertical"),
          MetroGroove(13500, 5000, 500, 70000, "vertical"),
          MetroGroove(19000, 5000, 500, 70000, "vertical"),
          MetroGroove(24500, 5000, 500, 70000, "vertical"),
          MetroGroove(8000, 5000, 17000, 500, "horizontal"),
          MetroGroove(8000, 14500, 17000, 500, "horizontal"),
          MetroGroove(8000, 24000, 17000, 500, "horizontal"),
          MetroGroove(8000, 33500, 17000, 500, "horizontal"),
          MetroGroove(8000, 43000, 17000, 500, "horizontal"),
          MetroGroove(8000, 52500, 17000, 500, "horizontal"),
          MetroGroove(8000, 62000, 17000, 500, "horizontal"),
          MetroGroove(8000, 71500, 17000, 500, "horizontal")>>]

\* the generic renderer's arguments for the Metropolitan template; the
\* door's inches are left at their defaults
MetropolitanCall(w) ==
    CallArg(w, 36 * Milli, 80 * Milli, SIG_METROPOLITAN.wood_type,
            SIG_METROPOLITAN.stain_color, Some(SIG_METROPOLITAN.elements),
            Some(SIG_METROPOLITAN.handle))

\* the widths both renderers are run at: none, a few pixels, 1 px per inch,
\* and the widths the scripts use
MetroWidths == (-1..6) \cup {36, 266, 347, 540}

\* A session renders Metropolitan with render_door_slab.py, whose
\* final.save may fail, and then enters the generic renderer with the
\* Metropolitan template at the same width.
CallMetropolitan ==
    /\ pc = "idle"
    /\ calls = 0
    /\ \E w \in MetroWidths, saved \in BOOLEAN :
          LET r == RenderMetropolitan(w, strictRect, rng)
          IN  /\ args' = MetropolitanCall(w)
              /\ rng' = r.rng
              /\ prev' = Some([args |-> MetropolitanCall(w),
                               ok |-> r.err = "" /\ saved,
                               err |-> IF r.err # "" THEN r.err
                                       ELSE IF saved THEN "" ELSE "OSError",
                               image |-> IF r.err = "" /\ saved THEN r.ops ELSE <<>>])
    /\ calls' = 1
    /\ pc' = "scale"
    /\ UNCHANGED <<strictRect, scale, height_px, blended, img, buckets, stages,
                   err, file, ret, workers, binding, job>>

NextMetro ==
    \/ CallMetropolitan
    \/ ResolveScale
    \/ BlendWood
    \/ NewCanvas
    \/ GrainVertical
    \/ GrainHorizontal
    \/ Partition
    \/ DrawPanels
    \/ DrawGrooves
    \/ DrawGlass
    \/ DrawHandle
    \/ Lighting
    \/ Save
    \/ SaveFail

SpecMetro == Init /\ [][NextMetro]_vars


\* -------------------------------------------------- the generation scripts
\* generate_gemini of generate_template_photo.py and generate_template of
\* generate_all_signatures.py ask an image model for count (num_variants)
\* variants.  What a provider answers, and whether a file can be written,
\* is the environment's choice.
GEMINI_IMAGE_MODELS ==
    <<"gemini-2.5-flash-image", "gemini-2.0-flash-exp-image-generation">>

\* the first six characters of each model name
Prefix6 ==
    ("gemini-2.5-flash-image" :> "gemini")
    @@ ("gemini-2.0-flash-exp-image-generation" :> "gemini")

\* model.startswith("imagen")
StartsWithImagen(model) == Prefix6[model] = "imagen"

\* the file save_output(provider, i, data) writes for a model's image:
\* "gemini-{i}.png", or "gemini-imagen-{i}.png" for an imagen model
FileOf(model, i) ==
    [provider |-> IF StartsWithImagen(model) THEN "gemini-imagen" ELSE "gemini",
     index |-> i]

\* How the try block of one attempt ends: the provider call or the reading
\* of its response raises; the response holds no image; the image is
\* written; the writing of the image raises.
AttemptOutcomes == {"raised", "no-image", "saved", "save-raised"}

\* the state a file is left in by a write that raises: untouched when it
\* could not be opened, incomplete otherwise
FailedWrite(before) == {before, "partial"}

\* a model loop that goes on to the next model after an image was saved
EndsVariant_noBreak(outcome, m) == m = Len(GEMINI_IMAGE_MODELS)

\* the model loop of a variant ends by `break` after save_output or when
\* the list is exhausted; `continue` and falling through go to the next model
EndsVariant(outcome, m) == outcome = "saved" \/ m = Len(GEMINI_IMAGE_MODELS)

\* for i in range(1, n + 1): the position after variant i
NextVariant(j) ==
    IF j.i < j.n THEN [j EXCEPT !.i = @ + 1, !.m = 1]
    ELSE [j EXCEPT !.pc = "returned"]

\* generate_gemini(count) is entered: without GOOGLE_AI_API_KEY it returns
GeminiStart ==
    /\ job.pc = "idle"
    /\ \E count \in 0..MaxVariants, key \in BOOLEAN :
          job' = [NoJob EXCEPT
                    !.pc = IF key THEN "setup" ELSE "returned",
                    !.key = key, !.n = count,
                    !.files = [f \in {FileOf(model, i) :
                                        model \in {GEMINI_IMAGE_MODELS[k] :
                                                     k \in 1..Len(GEMINI_IMAGE_MODELS)},
                                        i \in 1..count} |-> "absent"]]
    /\ UNCHANGED <<pc, args, calls, strictRect, rng, scale, height_px, blended, img,
                   buckets, stages, err, file, ret, prev, workers, binding>>

\* imports, genai.Client(api_key=...), STOCK_PHOTO.read_bytes(): any of
\* them may raise, and nothing catches it
GeminiSetup ==
    /\ job.pc = "setup"
    /\ \E ok \in BOOLEAN :
          job' = IF ~ok THEN [job EXCEPT !.pc = "raised"]
                 ELSE IF job.n < 1 THEN [job EXCEPT !.pc = "returned"]
                 ELSE [job EXCEPT !.pc = "variant", !.i = 1, !.m = 1]
    /\ UNCHANGED <<pc, args, calls, strictRect, rng, scale, height_px, blended, img,
                   buckets, stages, err, file, ret, prev, workers, binding>>

\* one iteration of "for model in GEMINI_IMAGE_MODELS" for variant i
GeminiTry ==
    /\ job.pc = "variant"
    /\ LET model == GEMINI_IMAGE_MODELS[job.m]
           f     == FileOf(model, job.i)
       IN  \E outcome \in AttemptOutcomes, st \in FailedWrite(job.files[f]) :
              /\ outcome # "save-raised" => st = job.files[f]
              /\ LET tried ==
                       [job EXCEPT
                          !.log = Append(@, [i |-> job.i, model |-> model,
                                             outcome |-> outcome]),
                          !.files[f] = IF outcome = "saved" THEN "written" ELSE st]
                 IN  job' = IF EndsVariant(outcome, job.m) THEN NextVariant(tried)
                            ELSE [tried EXCEPT !.m = @ + 1]
    /\ UNCHANGED <<pc, args, calls, strictRect, rng, scale, height_px, blended, img,
                   buckets, stages, err, file, ret, prev, workers, binding>>

NextGemini ==
    \/ GeminiStart
    \/ GeminiSetup
    \/ GeminiTry

SpecGemini == Init /\ [][NextGemini]_vars

\* door_w = door_x2 - door_x1 of the bounds of door-traditional.png
DoorWidth == 712 - 365

\* an attempt whose exception leaves generate_template
AttemptCaught_propagates(outcome) == outcome \notin {"raised", "save-raised"}

\* except Exception as e: print(...): every exception of an attempt is caught
AttemptCaught(outcome) == TRUE

\* generate_template(slug, template, num_variants) is entered for the
\* Metropolitan template and calls render_door_slab
TemplateStart ==
    /\ job.pc = "idle"
    /\ pc = "idle"
    /\ \E n \in 0..MaxVariants, key \in BOOLEAN :
          job' = [NoJob EXCEPT !.pc = "render", !.key = key, !.n = n,
                               !.files = [i \in 1..n |-> "absent"]]
    /\ args' = MetropolitanCall(DoorWidth)
    /\ calls' = calls + 1
    /\ pc' = "scale"
    /\ UNCHANGED <<strictRect, rng, scale, height_px, blended, img, buckets, stages,
                   err, file, ret, prev, workers, binding>>

\* an exception of render_door_slab leaves generate_template
TemplateRenderRaised ==
    /\ job.pc = "render"
    /\ pc = "raised"
    /\ job' = [job EXCEPT !.pc = "raised"]
    /\ UNCHANGED <<pc, args, calls, strictRect, rng, scale, height_px, blended, img,
                   buckets, stages, err, file, ret, prev, workers, binding>>

\* Step 2: the slab is pasted on the stock photo and composite.png saved;
\* opening the photo or saving may raise
TemplateComposite ==
    /\ job.pc = "render"
    /\ pc = "done"
    /\ \E st \in {"written", "partial", "absent"} :
          job' = [job EXCEPT !.composite = st,
                             !.pc = IF st = "written" THEN "key" ELSE "raised"]
    /\ UNCHANGED <<pc, args, calls, strictRect, rng, scale, height_px, blended, img,
                   buckets, stages, err, file, ret, prev, workers, binding>>

\* api_key = os.environ.get("GOOGLE_AI_API_KEY"); if not api_key: return
TemplateKey ==
    /\ job.pc = "key"
    /\ job' = [job EXCEPT !.pc = IF job.key THEN "setup" ELSE "returned"]
    /\ UNCHANGED <<pc, args, calls, strictRect, rng, scale, height_px, blended, img,
                   buckets, stages, err, file, ret, prev, workers, binding>>

\* imports, genai.Client, composite_path.read_bytes(), build_prompt,
\* Image.open(stock_photo_path): any of them may raise
TemplateSetup ==
    /\ job.pc = "setup"
    /\ \E ok \in BOOLEAN :
          job' = IF ~ok THEN [job EXCEPT !.pc = "raised"]
                 ELSE IF job.n < 1 THEN [job EXCEPT !.pc = "returned"]
                 ELSE [job EXCEPT !.pc = "variant", !.i = 1, !.m = 1]
    /\ UNCHANGED <<pc, args, calls, strictRect, rng, scale, height_px, blended, img,
                   buckets, stages, err, file, ret, prev, workers, binding>>

\* one iteration of "for i in range(1, num_variants + 1)": one call of
\* gemini-2.5-flash-image, the first image part written to variant-{i}.png
TemplateAttempt ==
    /\ job.pc = "variant"
    /\ \E outcome \in AttemptOutcomes, st \in FailedWrite(job.files[job.i]) :
          /\ outcome # "save-raised" => st = job.files[job.i]
          /\ LET tried ==
                   [job EXCEPT
                      !.log = Append(@, [i |-> job.i, model |-> GEMINI_IMAGE_MODELS[1],
                                         outcome |-> outcome]),
                      !.files[job.i] = IF outcome = "saved" THEN "written" ELSE st]
             IN  job' = IF AttemptCaught(outcome) THEN NextVariant(tried)
                        ELSE [tried EXCEPT !.pc = "raised"]
    /\ UNCHANGED <<pc, args, calls, strictRect, rng, scale, height_px, blended, img,
                   buckets, stages, err, file, ret, prev, workers, binding>>

NextTemplate ==
    \/ TemplateStart
    \/ ResolveScale
    \/ BlendWood
    \/ NewCanvas
    \/ GrainVertical
    \/ GrainHorizontal
    \/ Partition
    \/ DrawPanels
    \/ DrawGrooves
    \/ DrawGlass
    \/ DrawHandle
    \/ Lighting
    \/ Save
    \/ SaveFail
    \/ TemplateRenderRaised
    \/ TemplateComposite
    \/ TemplateKey
    \/ TemplateSetup
    \/ TemplateAttempt

SpecTemplate == Init /\ [][NextTemplate]_vars


\* ================================================================ claims
StageDone(s) == \E k \in 1..Len(stages) : stages[k] = s
DimsValid(a) == a.width_px > 0 /\ a.door_w_inches > 0 /\ a.door_h_inches > 0
PrevOk == prev # None /\ prev[1].ok
Sites(image, ss) == {k \in 1..Len(image) : image[k].site \in ss}

\* C1 (as stated): for every valid call the canvas height equals
\* round(door_h_inches * (width_px / door_w_inches)), rounded to the
\* nearest integer and not truncated.
C1_HeightRounded ==
    (DimsValid(args) /\ StageDone("scale")) =>
        height_px = RoundDiv(args.door_h_inches * args.width_px, args.door_w_inches)

\* C1 (amended): for every valid call the canvas height is the product
\* door_h_inches * (width_px / door_w_inches) truncated toward zero: the
\* largest integer not above it.
C1_HeightTruncated ==
    (DimsValid(args) /\ StageDone("scale")) =>
        /\ height_px * args.door_w_inches <= args.door_h_inches * args.width_px
        /\ args.door_h_inches * args.width_px < (height_px + 1) * args.door_w_inches

\* a valid render has completed whose exact height has a fraction of at
\* least one half, so that rounding and truncation differ
C1_Witness ==
    /\ pc = "done"
    /\ DimsValid(args)
    /\ height_px # RoundDiv(args.door_h_inches * args.width_px, args.door_w_inches)

\* C2: two calls with the same arguments produce identical images whatever
\* the generator's state before each call: every render reseeds before the
\* grain and then consumes the same sequence of random values, two per
\* vertical line and then two per horizontal line.
C2_Deterministic ==
    /\ (pc = "done" /\ PrevOk /\ prev[1].args = args) => ret[1] = prev[1].image
    /\ StageDone("grain-h") =>
          rng = RngSkip(RngSeed(42),
                        2 * (RangeLen(args.width_px, 3) + RangeLen(height_px, 7)))

\* a second render of the same arguments has completed on a canvas that has
\* grain lines; the generator was left advanced by the first render
C2_Witness ==
    /\ pc = "done"
    /\ PrevOk
    /\ prev[1].args = args
    /\ Sites(ret[1], {"grain-v"}) # {}
    /\ Sites(ret[1], {"grain-h"}) # {}

\* the layer an operation belongs to
LayerRank(op) ==
    CASE op.site \in {"base", "grain-v", "grain-h"} -> 0
      [] op.site \in {"panel-fill", "panel-top", "panel-left", "panel-bottom",
                      "panel-right"} -> 1
      [] op.site \in {"groove-fill", "groove-highlight"} -> 2
      [] op.site = "glass" -> 3
      [] op.site \in {"handle-shadow", "handle-bar", "handle-highlight",
                      "handle-bracket", "handle-recess", "handle-inner-shadow"} -> 4
      [] OTHER -> 5

\* pixel (x, y) lies in the rectangle or on the axis-parallel line of op
Covers(op, x, y) ==
    /\ Min(op.xy[1], op.xy[3]) <= x /\ x <= Max(op.xy[1], op.xy[3])
    /\ Min(op.xy[2], op.xy[4]) <= y /\ y <= Max(op.xy[2], op.xy[4])

\* the last operation of ops that set pixel (x, y); 0 if none
TopAt(ops, x, y) ==
    LET c == {k \in 1..Len(ops) : Covers(ops[k], x, y)}
    IN  IF c = {} THEN 0 ELSE CHOOSE k \in c : \A j \in c : j <= k

\* the pixels of the canvas inside all three rectangles
Overlap(a, b, c) ==
    {p \in (Max(Max(a.xy[1], b.xy[1]), c.xy[1])..Min(Min(a.xy[3], b.xy[3]), c.xy[3]))
           \X (Max(Max(a.xy[2], b.xy[2]), c.xy[2])..Min(Min(a.xy[4], b.xy[4]), c.xy[4])) :
        TRUE}

GlassAt == Sites(img, {"glass"})

\* C3: for every order of the elements list all recessed panels are drawn
\* before any groove and all grooves before the glass; at a pixel inside a
\* panel, a groove and a glass panel the canvas holds a colour of the groove
\* stage, not the panel's, when the glass overlay is blended over it.
C3_ZOrder ==
    /\ \A k \in 1..(Len(img) - 1) :
          (LayerRank(img[k]) \in 1..3 /\ LayerRank(img[k + 1]) \in 1..3)
              => LayerRank(img[k]) <= LayerRank(img[k + 1])
    /\ \A g \in GlassAt :
       \A i \in Sites(img, {"panel-fill"}), j \in Sites(img, {"groove-fill"}),
          l \in Sites(img[g].over, {"glass-fill"}) :
       \A p \in Overlap(img[i], img[j], img[g].over[l]) :
          /\ i < g /\ j < g
          /\ img[TopAt(SubSeq(img, 1, g - 1), p[1], p[2])].site
                \in {"groove-fill", "groove-highlight"}

\* a render has completed whose list names the glass first, the groove
\* second and the panel last, the three sharing pixels
C3_Witness ==
    /\ pc = "done"
    /\ Elements(args) = <<ElemGlass, ElemGroove, ElemPanel>>
    /\ \E g \in GlassAt :
       \E i \in Sites(img, {"panel-fill"}), j \in Sites(img, {"groove-fill"}),
          l \in Sites(img[g].over, {"glass-fill"}) :
          Overlap(img[i], img[j], img[g].over[l]) # {}

\* the filled body of the handle in an image
HandleBody(image) == Sites(image, {"handle-bar", "handle-recess"})

\* C4 (as stated): the horizontal extent of the handle rendered with
\* side=right is the mirror image, about the vertical centerline of the
\* canvas, of the extent rendered with side=left and otherwise identical
\* fields, within one pixel, for every style and bar width.
C4_Mirror ==
    (pc = "done" /\ PrevOk /\ args # prev[1].args /\ args = FlipSide(prev[1].args)) =>
        \A i \in HandleBody(prev[1].image), j \in HandleBody(ret[1]) :
            LET a == prev[1].image[i].xy
                b == ret[1][j].xy
                w == args.width_px
            IN  /\ Abs(b[1] - ((w - 1) - a[3])) <= 1
                /\ Abs(b[3] - ((w - 1) - a[1])) <= 1

\* C5: every filled groove rectangle is at least 2 pixels thick on each
\* axis, also when its physical width or height converts to 0 or 1 pixel.
C5_GrooveThickness ==
    \A k \in Sites(img, {"groove-fill"}) :
        /\ img[k].xy[3] - img[k].xy[1] + 1 >= 2
        /\ img[k].xy[4] - img[k].xy[2] + 1 >= 2

\* a render has completed that drew the groove of width 0.01 in, which
\* converts to 0 pixels
C5_Witness ==
    /\ pc = "done"
    /\ \E k \in 1..Len(Elements(args)) : Elements(args)[k] = ElemThinGroove
    /\ to_px(ElemThinGroove.size.width, scale) < 2
    /\ Sites(img, {"groove-fill"}) # {}

\* C6 (as stated): a call with door_w_inches <= 0, door_h_inches <= 0 or
\* width_px <= 0 fails before a canvas is created or anything is drawn; no
\* image is produced, written or returned.
C6_RejectsBadDims ==
    (pc # "idle" /\ ~DimsValid(args)) =>
        /\ img = <<>>
        /\ file.state = "absent"
        /\ ret = None

\* exactly six hexadecimal digits with an optional leading '#'
SixHexDigits(s) ==
    LET h == IF s # <<>> /\ Head(s) = "#" THEN Tail(s) ELSE s
    IN  Len(h) = 6 /\ \A k \in 1..6 : h[k] \in HexDigits

\* C7 (as stated): every stain_color that is not exactly six hexadecimal
\* digits with an optional leading '#' makes hex_to_rgb, and so the render,
\* fail with a format error; none is accepted.
C7_RejectsBadHex ==
    (pc # "idle" /\ ~SixHexDigits(args.stain_color)) =>
        ~StageDone("blend")

UnknownWood(a) == a.wood_type \notin DOMAIN WOOD_COLORS
UnknownFinish(a) ==
    a.handle # None /\ Get(a.handle[1], "finish", "matte-black") \notin DOMAIN HANDLE_COLORS
UnknownGlass(a) ==
    \E k \in 1..Len(Elements(a)) :
        Get(Elements(a)[k], "glassType", "frosted") \notin DOMAIN GLASS_COLORS

\* C8: an unknown woodType, handle finish or glassType never makes the
\* render fail: it completes whenever the render with the names maple,
\* matte-black and frosted in their place completes, and with the same image.
C8_FallbackNotFailure ==
    (/\ pc \in {"done", "raised"} /\ err # "OSError"
     /\ prev # None /\ prev[1].err # "OSError"
     /\ args # prev[1].args
     /\ SpelledOut(args) = SpelledOut(prev[1].args)) =>
        /\ (pc = "done") = prev[1].ok
        /\ err = prev[1].err
        /\ pc = "done" => ret[1] = prev[1].image

\* a render with an unknown wood type, an unknown finish and an unknown
\* glass type has completed, and so has the render that names the defaults
C8_Witness ==
    /\ pc = "done"
    /\ PrevOk
    /\ UnknownWood(prev[1].args) /\ UnknownFinish(prev[1].args) /\ UnknownGlass(prev[1].args)
    /\ args = SpelledOut(prev[1].args)
    /\ args # prev[1].args
    /\ GlassAt # {}

\* C9 (as stated): every completed render has drawn exactly one handle, of
\* exactly one style, whatever handle descriptor was passed in.
C9_ExactlyOneHandle ==
    pc = "done" =>
        /\ Cardinality(HandleBody(img)) = 1
        /\ (Sites(img, {"handle-bar"}) = {}) # (Sites(img, {"handle-recess"}) = {})

AllStages ==
    <<"scale", "blend", "canvas", "grain-v", "grain-h", "partition", "panels",
      "grooves", "glass", "handle", "lighting", "save">>

\* C10: the output file is written only when every stage has completed; in
\* every run where a stage before the write raises, the call ends with that
\* error, nothing has been written to output_path and no image is returned.
C10_NoPartialOutput ==
    /\ file.state = "written" => (pc = "done" /\ stages = AllStages)
    /\ ret # None => (pc = "done" /\ stages = AllStages /\ file.image = ret[1])
    /\ (pc = "raised" /\ err # "OSError") =>
          (file.state = "absent" /\ ret = None)
    /\ pc = "raised" => (err # "" /\ ret = None)

\* a stage has raised after the canvas was drawn on
C10_Witness ==
    /\ pc = "raised"
    /\ err \in {"KeyError", "ValueError"}
    /\ Len(img) > 1
    /\ file.state = "absent"

\* the threads that have returned
Returned == {t \in Threads : workers[t].pc = "done"}

\* C11 (as stated): two render_door_slab calls running concurrently in
\* separate threads share no mutable state: under every interleaving each
\* returns the image it returns when run alone, and the generator a render
\* draws its grain from is neither reseeded nor advanced by the other.
C11_ThreadsIndependent ==
    \A t \in Returned : workers[t].ret[1] = RenderAlone(workers[t].args, strictRect)

\* the sequential render returns what RenderAlone computes
SequentialIsAlone ==
    pc = "done" => ret[1] = RenderAlone(args, strictRect)

\* a thread that ran while no other thread was inside the grain loops
\* returns what RenderAlone computes
AloneIsAlone ==
    \A t \in Returned :
        (\A u \in Threads \ {t} : workers[u].pc = "idle") =>
            workers[t].ret[1] = RenderAlone(workers[t].args, strictRect)

\* the rows drawn on the lighting overlay of the canvas, top to bottom
GradientRows ==
    LET g == Sites(img, {"gradient"})
    IN  IF g = {} THEN <<>>
        ELSE LET over == img[CHOOSE k \in g : TRUE].over
             IN  SubSeq(over, 2, Len(over))

OpsAt(image, site) == SelectSeq(image, LAMBDA op : op.site = site)

\* the glass overlay composited on the canvas; empty if none
GlassOverlay ==
    IF GlassAt = {} THEN <<>> ELSE img[CHOOSE k \in GlassAt : TRUE].over

\* px is inches * scale rounded to the nearest integer
IsRounded(px, inches) == px = RoundDiv(inches * scale.n, scale.d)

\* px is inches * scale with its fraction dropped: the integer of the
\* quotient's sign that is nearest to it and not larger in magnitude
IsTruncated(px, inches) ==
    LET num == inches * scale.n
    IN  /\ Abs(px) * Abs(scale.d) <= Abs(num)
        /\ Abs(num) < (Abs(px) + 1) * Abs(scale.d)
        /\ px # 0 => ((px > 0) = ((num > 0) = (scale.d > 0)))

\* the pixel values of a conversion of at most 64 inches
PixelRange == -1024..1024

\* span is max(px, lo) for the pixel value px that P relates to inches
AtLeast(P(_, _), span, inches, lo) ==
    IF span > lo THEN P(span, inches)
    ELSE span = lo /\ \E px \in PixelRange : px <= lo /\ P(px, inches)

\* the corner of a drawn rectangle and its spans come from the element's
\* position and size by the conversion P
BoxConverted(P(_, _), op, e, lo) ==
    /\ P(op.xy[1], e.position.x)
    /\ P(op.xy[2], e.position.y)
    /\ IF lo = 0 THEN /\ P(op.xy[3] - op.xy[1], e.size.width)
                      /\ P(op.xy[4] - op.xy[2], e.size.height)
       ELSE /\ AtLeast(P, op.xy[3] - op.xy[1], e.size.width, lo)
            /\ AtLeast(P, op.xy[4] - op.xy[2], e.size.height, lo)

\* (half height in inches, width in inches, minimum width in pixels,
\*  bracket height in inches) of a handle style
HandleInches(style) ==
    CASE style = "long-pull" -> <<24 * Milli, 750, 6, 1500>>
      [] style = "square-pull" -> <<6 * Milli, 1000, 8, 1000>>
      [] OTHER -> <<4 * Milli, 1500, 10, 0>>

\* Every pixel quantity of the drawn elements and of the drawn handle comes
\* from its inches by the conversion P.
ConversionsAre(P(_, _)) ==
    /\ LET fills == OpsAt(img, "panel-fill")
       IN  \A j \in 1..Len(fills) : BoxConverted(P, fills[j], buckets.panels[j], 0)
    /\ LET fills == OpsAt(img, "groove-fill")
       IN  \A j \in 1..Len(fills) : BoxConverted(P, fills[j], buckets.grooves[j], 2)
    /\ LET fills == OpsAt(GlassOverlay, "glass-fill")
       IN  \A j \in 1..Len(fills) : BoxConverted(P, fills[j], buckets.glass[j], 0)
    /\ \A k \in HandleBody(img) :
          LET h == Handle(args)
              hi == HandleInches(Get(h, "style", "long-pull"))
              xy == img[k].xy
              cy == (xy[2] + xy[4]) \div 2
          IN  /\ P(IF Get(h, "side", "left") = "left" THEN xy[1] + 3
                   ELSE args.width_px - xy[1] - 3, Inset)
              /\ (xy[2] + xy[4]) % 2 = 0
              /\ P(height_px - cy, Get(h, "heightFromBottom", 40 * Milli))
              /\ P(xy[4] - cy, hi[1])
              /\ AtLeast(P, xy[3] - xy[1], hi[2], hi[3])
    /\ \A k \in Sites(img, {"handle-bracket"}) :
          P(img[k].xy[4] - img[k].xy[2],
            HandleInches(Get(Handle(args), "style", "long-pull"))[4])

\* C13 (as stated): every inch-to-pixel conversion in the render (element
\* positions and sizes, handle inset, handle height, bar and bracket sizes)
\* yields round(inches * scale), the nearest integer pixel, by one rule.
C13_ConversionsRounded == ConversionsAre(IsRounded)

\* C13 (amended): every inch-to-pixel conversion in the render (element
\* positions and sizes, handle inset, handle height, bar and bracket sizes)
\* yields int(inches * scale), the product truncated toward zero, by one
\* and the same rule for every conversion.
C13_ConversionsTruncated == ConversionsAre(IsTruncated)

\* the example template has been rendered at width 266: its panel, handle
\* bar and brackets are drawn, and the panel's y and the handle inset have
\* fractions of at least one half
C13_Witness ==
    /\ pc = "done"
    /\ args = ExampleCall
    /\ OpsAt(img, "panel-fill") # <<>>
    /\ HandleBody(img) # {}
    /\ Sites(img, {"handle-bracket"}) # {}
    /\ ~IsRounded(OpsAt(img, "panel-fill")[1].xy[2], ExamplePanel.position.y)
    /\ \E k \in HandleBody(img) : ~IsRounded(img[k].xy[1] + 3, Inset)

\* the palette colour and the stain channels the running call blends
BlendInputs ==
    [base |-> WoodBase(args.wood_type), stain |-> hex_to_rgb(args.stain_color).rgb]

\* C14 (as stated): for every wood base colour of the palette and every
\* stain colour, each channel of the blended wood colour equals
\* round(0.6*base + 0.4*stain), the nearest integer, and lies in [0,255].
C14_BlendRounded ==
    StageDone("blend") =>
        \A k \in 1..3 :
            /\ blended[k] = RoundDiv(6 * BlendInputs.base[k] + 4 * BlendInputs.stain[k], 10)
            /\ blended[k] \in 0..255

\* C14 (amended): for every wood base colour of the palette and every
\* stain colour, each channel of the blended wood colour is
\* int(0.6*base + 0.4*stain) computed in double arithmetic: it lies in
\* [0,255], never exceeds 0.6*base + 0.4*stain and is less than 1 below it,
\* except that for base 139 and a stain channel of 4, 9, 14 or 19 (-1, -6
\* or -11 for a signed digit), whose exact sum is an integer n, it is n - 1.
C14_BlendTruncated ==
    StageDone("blend") =>
        \A k \in 1..3 :
            LET sum10 == 6 * BlendInputs.base[k] + 4 * BlendInputs.stain[k]
            IN  /\ blended[k] \in 0..255
                /\ 10 * blended[k] <= sum10
                /\ IF BlendInputs.base[k] = 139
                      /\ BlendInputs.stain[k] \in {-11, -6, -1, 4, 9, 14, 19}
                   THEN sum10 = 10 * (blended[k] + 1)
                   ELSE sum10 < 10 * (blended[k] + 1)

\* maple (139, 115, 85) has been blended with the stain #040404: the exact
\* sums are 85, 70.6 and 52.6
C14_Witness ==
    /\ StageDone("blend")
    /\ args.wood_type = "maple"
    /\ args.stain_color = <<"#", "0", "4", "0", "4", "0", "4">>
    /\ blended = <<84, 70, 52>>

Near(a, b) == Abs(a - b) <= 2

\* C15: for the example template (36x80 in, maple, stain #8B7355, one
\* recessed panel at x=8, y=5, w=17, h=10, depth 0.5, long-pull matte-black
\* handle on the left at heightFromBottom=40) rendered at width 266, the
\* canvas height is 591, the panel's pixel bounds are (59,37)-(184,111) to
\* within 2 pixels on each coordinate, and the handle bar starts within 2
\* pixels of x=38 and is vertically centred within 2 pixels of y=295.
C15_Example ==
    (args = ExampleCall /\ StageDone("handle")) =>
        /\ height_px = 591
        /\ Len(OpsAt(img, "panel-fill")) = 1
        /\ LET xy == OpsAt(img, "panel-fill")[1].xy
           IN  Near(xy[1], 59) /\ Near(xy[2], 37) /\ Near(xy[3], 184) /\ Near(xy[4], 111)
        /\ Len(OpsAt(img, "handle-bar")) = 1
        /\ LET xy == OpsAt(img, "handle-bar")[1].xy
           IN  /\ Near(xy[1], 38)
               /\ (xy[2] + xy[4]) % 2 = 0
               /\ Near((xy[2] + xy[4]) \div 2, 295)

\* the example template has been rendered to the end
C15_Witness ==
    /\ pc = "done"
    /\ args = ExampleCall
    /\ OpsAt(ret[1], "panel-fill") # <<>>
    /\ OpsAt(ret[1], "handle-bar") # <<>>

\* C16: in every render each stage runs exactly once and in the order
\* scale, base fill and grain, elements, handle, lighting gradient, flatten
\* to RGB and write: the stages completed so far are always an initial
\* part of that order, with no stage twice, and all of it when the render
\* returns; on the canvas every element operation precedes every handle
\* operation (the handle covers glass) and the lighting overlay comes after
\* the handle; the returned image is the canvas converted to RGB.
C16_SinglePass ==
    /\ Len(stages) <= Len(AllStages)
    /\ stages = SubSeq(AllStages, 1, Len(stages))
    /\ pc = "done" => stages = AllStages
    /\ pc \notin {"idle", "done", "raised"} =>
          (IF stages = <<>> THEN pc = "scale" ELSE pc = StageAfter[stages[Len(stages)]])
    /\ \A k \in 1..(Len(img) - 1) : LayerRank(img[k]) <= LayerRank(img[k + 1])
    /\ \A k \in 1..Len(img) :
          /\ LayerRank(img[k]) = 0 => StageDone("canvas")
          /\ LayerRank(img[k]) \in 1..2 => StageDone("partition")
          /\ LayerRank(img[k]) = 3 => StageDone("glass")
          /\ LayerRank(img[k]) = 5 => StageDone("lighting")
    /\ Cardinality(Sites(img, {"gradient"})) <= 1
    /\ Cardinality(GlassAt) <= 1
    /\ pc = "done" =>
          /\ ret[1] = Final(img)
          /\ img[Len(img)].site = "gradient"

\* a render with a glass panel has returned: the glass overlay, the handle
\* and the lighting overlay are on the canvas
C16_Witness ==
    /\ pc = "done"
    /\ GlassAt # {}
    /\ HandleBody(img) # {}
    /\ Sites(img, {"gradient"}) # {}
    /\ \A g \in GlassAt, h \in HandleBody(img), l \in Sites(img, {"gradient"}) :
          g < h /\ h < l

\* the fill rectangles drawn for the elements of the running call
ElementFills ==
    OpsAt(img, "panel-fill") \o OpsAt(img, "groove-fill")
    \o OpsAt(GlassOverlay, "glass-fill")

\* C17 (as stated): for every recessed-panel, groove or glass-panel element
\* whose position and size convert to a zero or negative pixel span, the
\* render does not raise: it runs to completion and the element is still
\* drawn as a rectangle, of at least the minimum thickness.
C17_SpansNeverRaise ==
    (Len(Elements(args)) = 1 /\ Elements(args)[1] \in SpanElems) =>
        /\ pc = "raised" => err = "OSError"
        /\ StageDone("glass") =>
              /\ Len(ElementFills) = 1
              /\ ElementFills[1].xy[1] <= ElementFills[1].xy[3]
              /\ ElementFills[1].xy[2] <= ElementFills[1].xy[4]

\* the operations drawn for the j-th panel of the running call: from its
\* fill up to the next panel's fill
PanelSegment(j) ==
    LET fills == {k \in 1..Len(img) : img[k].site = "panel-fill"}
        Nth(n) == CHOOSE k \in fills : Cardinality({i \in fills : i <= k}) = n
        first == Nth(j)
        last  == IF j < Cardinality(fills) THEN Nth(j + 1) - 1 ELSE Len(img)
    IN  SelectSeq(SubSeq(img, first, last), LAMBDA op : LayerRank(op) = 1)

\* the number of bevel lines the j-th panel has on the edge drawn at site
EdgeLines(j, site) == Len(OpsAt(PanelSegment(j), site))

PanelEdges == {"panel-top", "panel-left", "panel-bottom", "panel-right"}

\* C18 (as stated): for every recessed panel and every depth in [0,1] the
\* bevel width in pixels equals max(2, round(depth*6)); it is never below
\* 2, and every panel gets at least two bevel lines on each of its four
\* edges.
C18_BevelRounded ==
    StageDone("panels") =>
        \A j \in 1..Len(buckets.panels) : \A site \in PanelEdges :
            /\ EdgeLines(j, site) =
                  Max(2, RoundDiv(6 * Get(buckets.panels[j], "depth", 375), Milli))
            /\ EdgeLines(j, site) >= 2

\* C18 (amended): for every recessed panel and every depth in [0,1] the
\* bevel width in pixels equals max(2, int(depth*6)), the product truncated
\* and not rounded; it is never below 2, and every panel gets that many
\* bevel lines, at least two, on each of its four edges, at the insets
\* 0, 1, ..., width - 1.
C18_BevelTruncated ==
    StageDone("panels") =>
        \A j \in 1..Len(buckets.panels) : \A site \in PanelEdges :
            LET n == EdgeLines(j, site)
                depth6 == 6 * Get(buckets.panels[j], "depth", 375)
                fill == PanelSegment(j)[1].xy
                lines == OpsAt(PanelSegment(j), site)
            IN  /\ n >= 2
                /\ IF n = 2 THEN depth6 < 3 * Milli
                   ELSE n * Milli <= depth6 /\ depth6 < (n + 1) * Milli
                /\ \A i \in 1..n :
                      lines[i].xy[IF site \in {"panel-top", "panel-bottom"} THEN 2 ELSE 1]
                        = CASE site = "panel-top" -> fill[2] + (i - 1)
                            [] site = "panel-left" -> fill[1] + (i - 1)
                            [] site = "panel-bottom" -> fill[4] - (i - 1)
                            [] site = "panel-right" -> fill[3] - (i - 1)

\* a render has drawn a panel of depth 0.6, whose bevel is 3 wide where
\* round(3.6) is 4
C18_Witness ==
    /\ pc = "done"
    /\ Len(buckets.panels) = 1
    /\ Get(buckets.panels[1], "depth", 375) = 600
    /\ \A site \in PanelEdges : EdgeLines(1, site) = 3

\* colour a is no lighter than colour b, channel by channel
NoLighter(a, b) == \A k \in 1..3 : a[k] <= b[k]

\* the colours of a sequence of lines never get lighter, or never darker
Darkening(lines) ==
    \A i \in 1..(Len(lines) - 1) : NoLighter(lines[i + 1].fill, lines[i].fill)
Lightening(lines) ==
    \A i \in 1..(Len(lines) - 1) : NoLighter(lines[i].fill, lines[i + 1].fill)

\* panel p with its depth set to d
WithDepth(p, d) ==
    [f \in DOMAIN p \cup {"depth"} |-> IF f = "depth" THEN d ELSE p[f]]

\* C19: for every recessed panel, each bevel step i draws the top and left
\* edge lines in one shadow shade no lighter than the blended wood colour
\* and the bottom and right edge lines in one highlight shade no darker
\* than it; the shadow is darkest and the highlight brightest at the
\* outermost step (i = 0) and both move monotonically toward the mid/soft
\* shade as i grows; the same panel with a larger depth has, at every step,
\* a shadow no lighter and a highlight no darker.
C19_BevelShades ==
    StageDone("panels") =>
        \A j \in 1..Len(buckets.panels) :
            LET seg    == PanelSegment(j)
                top    == OpsAt(seg, "panel-top")
                left   == OpsAt(seg, "panel-left")
                bottom == OpsAt(seg, "panel-bottom")
                right  == OpsAt(seg, "panel-right")
                depth  == Get(buckets.panels[j], "depth", 375)
            IN  /\ \A i \in 1..Len(top) :
                      /\ top[i].fill = left[i].fill
                      /\ NoLighter(top[i].fill, blended)
                /\ \A i \in 1..Len(bottom) :
                      /\ bottom[i].fill = right[i].fill
                      /\ NoLighter(blended, bottom[i].fill)
                /\ Lightening(top)
                /\ Darkening(bottom)
                /\ \A d \in Depths :
                      d >= depth =>
                          LET deeper == PanelOps(WithDepth(buckets.panels[j], d),
                                                 scale, blended)
                          IN  /\ \A i \in 1..Len(top) :
                                    NoLighter(OpsAt(deeper, "panel-top")[i].fill,
                                              top[i].fill)
                              /\ \A i \in 1..Len(bottom) :
                                    NoLighter(bottom[i].fill,
                                              OpsAt(deeper, "panel-bottom")[i].fill)

\* a render has drawn a panel with a bevel of at least three steps whose
\* shadow gets strictly lighter and whose highlight strictly darker inward
C19_Witness ==
    /\ pc = "done"
    /\ Len(buckets.panels) = 1
    /\ LET top    == OpsAt(PanelSegment(1), "panel-top")
           bottom == OpsAt(PanelSegment(1), "panel-bottom")
       IN  /\ Len(top) >= 3
           /\ \A i \in 1..(Len(top) - 1) :
                 /\ top[i].fill[1] < top[i + 1].fill[1]
                 /\ bottom[i].fill[1] > bottom[i + 1].fill[1]

\* the canvas positions of the groove fills, in drawing order
GrooveFillAt ==
    LET fills == Sites(img, {"groove-fill"})
    IN  [j \in 1..Cardinality(fills) |->
            CHOOSE k \in fills : Cardinality({i \in fills : i <= k}) = j]

\* C20: every groove gets exactly one highlight line, 1 pixel wide, in the
\* fixed colour wood+20 per channel (capped at 255) whatever the groove's
\* depth: along the right edge for direction=vertical and along the bottom
\* edge for direction=horizontal; the line is drawn right after the fill
\* and lies directly next to it, with no gap and no overlap.
C20_GrooveHighlight ==
    StageDone("grooves") =>
        /\ Len(GrooveFillAt) = Len(buckets.grooves)
        /\ Cardinality(Sites(img, {"groove-highlight"})) = Len(buckets.grooves)
        /\ \A j \in 1..Len(GrooveFillAt) :
              LET f == img[GrooveFillAt[j]].xy
                  h == img[GrooveFillAt[j] + 1]
                  g == buckets.grooves[j]
              IN  /\ h.site = "groove-highlight"
                  /\ h.kind = "line"
                  /\ h.width = 1
                  /\ h.fill = [k \in 1..3 |-> Min(255, blended[k] + 20)]
                  /\ IF Get(g, "direction", "horizontal") = "vertical"
                     THEN h.xy = <<f[3] + 1, f[2], f[3] + 1, f[4]>>
                     ELSE h.xy = <<f[1], f[4] + 1, f[3], f[4] + 1>>
                  /\ \A x \in f[1]..f[3], y \in f[2]..f[4] : ~Covers(h, x, y)

\* a render has drawn a vertical groove with a depth and a groove with
\* neither direction nor depth
C20_Witness ==
    /\ pc = "done"
    /\ Len(buckets.grooves) = 2
    /\ \E j \in 1..2 : Get(buckets.grooves[j], "direction", "horizontal") = "vertical"
                       /\ "depth" \in DOMAIN buckets.grooves[j]
    /\ \E j \in 1..2 : DOMAIN buckets.grooves[j] = {"type", "position", "size"}
    /\ Cardinality(Sites(img, {"groove-highlight"})) = 2

\* C21: every glass panel is drawn on a separate transparent overlay as
\* exactly one filled rectangle in the RGBA colour its glassType selects
\* from the four-entry palette, plus exactly one white translucent streak
\* from (x1+5, y1+20) to (x2-2, y1+80), for every panel size, also when the
\* streak leaves the panel's bounds; the overlay is merged onto the canvas
\* by one alpha composite, and no glass colour is opaque.
C21_GlassOverlay ==
    /\ Cardinality(DOMAIN GLASS_COLORS) = 4
    /\ Sites(img, {"glass-fill", "glass-streak"}) = {}
    /\ StageDone("glass") =>
          LET over == GlassOverlay
              n    == Len(buckets.glass)
          IN  IF n = 0 THEN GlassAt = {}
              ELSE /\ Cardinality(GlassAt) = 1
                   /\ \A g \in GlassAt : img[g].kind = "composite"
                   /\ Len(over) = 1 + 2 * n
                   /\ over[1] = NewImage(args.width_px, height_px, <<0, 0, 0, 0>>, "glass")
                   /\ \A j \in 1..n :
                         LET fill   == over[2 * j]
                             streak == over[2 * j + 1]
                             gp     == buckets.glass[j]
                             t      == Get(gp, "glassType", "frosted")
                         IN  /\ fill.kind = "rect" /\ fill.site = "glass-fill"
                             /\ fill.fill = IF t \in DOMAIN GLASS_COLORS
                                            THEN GLASS_COLORS[t]
                                            ELSE GLASS_COLORS["frosted"]
                             /\ Len(fill.fill) = 4 /\ fill.fill[4] < 255
                             /\ streak.kind = "line" /\ streak.site = "glass-streak"
                             /\ streak.fill = <<255, 255, 255, 60>>
                             /\ streak.xy = <<fill.xy[1] + 5, fill.xy[2] + 20,
                                              fill.xy[3] - 2, fill.xy[2] + 80>>

\* a render has returned whose glass panel is less than 80 pixels high, so
\* that its streak ends below the panel
C21_Witness ==
    /\ pc = "done"
    /\ Len(buckets.glass) >= 1
    /\ Len(GlassOverlay) >= 3
    /\ GlassOverlay[3].site = "glass-streak"
    /\ GlassOverlay[3].xy[4] > GlassOverlay[2].xy[4]

\* n is the number of multiples of step in 0..(limit - 1)
CountsSteps(n, step, limit) ==
    IF limit <= 0 THEN n = 0
    ELSE step * (n - 1) < limit /\ limit <= step * n

\* the grain colour c is the blended colour shifted by at most d per
\* channel, inside [0,255], with an alpha in lo..hi
GrainShade(c, d, lo, hi) ==
    /\ Len(c) = 4
    /\ \A k \in 1..3 : c[k] \in 0..255 /\ Abs(c[k] - blended[k]) <= d
    /\ c[4] \in lo..hi

\* C22: the grain stage draws one vertical line at every third column
\* x = 0, 3, 6, ... < width and one horizontal line at every seventh row
\* y = 0, 7, 14, ... < height; every vertical line has alpha in [205,225]
\* and colour channels within 10 of the blended wood colour, every
\* horizontal line has alpha in [230,245] and channels within 8, and every
\* channel of every grain colour lies in [0,255].
C22_Grain ==
    /\ StageDone("grain-v") =>
          LET v == OpsAt(img, "grain-v")
          IN  /\ CountsSteps(Len(v), 3, args.width_px)
              /\ \A j \in 1..Len(v) :
                    /\ v[j].kind = "line" /\ v[j].width = 1
                    /\ v[j].xy = <<3 * (j - 1), 0, 3 * (j - 1), height_px>>
                    /\ GrainShade(v[j].fill, 10, 205, 225)
    /\ StageDone("grain-h") =>
          LET h == OpsAt(img, "grain-h")
          IN  /\ CountsSteps(Len(h), 7, height_px)
              /\ \A j \in 1..Len(h) :
                    /\ h[j].kind = "line" /\ h[j].width = 1
                    /\ h[j].xy = <<0, 7 * (j - 1), args.width_px, 7 * (j - 1)>>
                    /\ GrainShade(h[j].fill, 8, 230, 245)
    /\ ~StageDone("grain-v") => Sites(img, {"grain-v", "grain-h"}) = {}

\* the 266 x 591 canvas has its 89 vertical and 85 horizontal grain lines,
\* some lighter and some darker than the blended colour
C22_Witness ==
    /\ StageDone("grain-h")
    /\ args.width_px = 266
    /\ Len(OpsAt(img, "grain-v")) = 89
    /\ Len(OpsAt(img, "grain-h")) = 85
    /\ \E k \in Sites(img, {"grain-v"}) : img[k].fill[1] > blended[1]
    /\ \E k \in Sites(img, {"grain-h"}) : img[k].fill[1] < blended[1]

\* the drawing operations of the handle stage, in the order they were issued
HandleSeq == SelectSeq(img, LAMBDA op : LayerRank(op) = 4)

HandleStyle == Get(Handle(args), "style", "long-pull")

\* the pixel row of the handle's centre
HandleCentre ==
    height_px - to_px(Get(Handle(args), "heightFromBottom", 40 * Milli), scale)

\* h is a bar handle of half-length half, width max(w, min_w) and bracket
\* height bracket, all in inches (thousandths) but min_w in pixels
IsBarHandle(h, half, w, min_w, bracket) ==
    /\ Len(h) = 5
    /\ \A k \in {1, 2, 4, 5} : h[k].kind = "rect"
    /\ h[1].site = "handle-shadow"
    /\ h[1].xy = <<h[2].xy[1] + 3, h[2].xy[2] + 3, h[2].xy[3] + 3, h[2].xy[4] + 3>>
    /\ h[2].site = "handle-bar"
    /\ h[2].fill = HandleColor(Get(Handle(args), "finish", "matte-black"))
    /\ h[2].xy[2] = HandleCentre - to_px(half, scale)
    /\ h[2].xy[4] = HandleCentre + to_px(half, scale)
    /\ h[2].xy[3] - h[2].xy[1] = Max(to_px(w, scale), min_w)
    /\ h[3].kind = "line" /\ h[3].width = 1 /\ h[3].site = "handle-highlight"
    /\ \A k \in {4, 5} :
          /\ h[k].site = "handle-bracket"
          /\ h[k].xy[4] - h[k].xy[2] = to_px(bracket, scale)
    /\ h[4].xy[2] = h[2].xy[2]
    /\ h[5].xy[4] = h[2].xy[4]

\* C23: for style long-pull (square-pull) the handle is drawn, in this
\* order, as a shadow rectangle of the bar's size offset 3 px right and
\* down, the bar in the finish colour spanning the centre row plus and minus
\* the pixel value of 24 in (6 in) with width max(pixels of 0.75 in, 6)
\* (max(pixels of 1.0 in, 8)), one 1-px highlight line, and exactly two
\* brackets of height 1.5 in (1.0 in) in pixels, the upper one starting at
\* the bar's top and the lower one ending at the bar's bottom.
C23_BarHandle ==
    StageDone("handle") =>
        /\ HandleStyle = "long-pull" => IsBarHandle(HandleSeq, 24 * Milli, 750, 6, 1500)
        /\ HandleStyle = "square-pull" => IsBarHandle(HandleSeq, 6 * Milli, 1000, 8, 1000)

\* a brass square-pull on the 266-px canvas: the bar is wider than the
\* 8-px floor and the brackets have a height of their own
C23_Witness ==
    /\ pc = "done"
    /\ HandleStyle = "square-pull"
    /\ Len(HandleSeq) = 5
    /\ HandleSeq[2].fill = <<180, 150, 50>>
    /\ HandleSeq[5].xy[2] > HandleSeq[4].xy[4]
    /\ HandleSeq[4].xy[4] > HandleSeq[4].xy[2]

\* the arguments a with the handle's finish replaced by f
WithFinish(a, f) ==
    [a EXCEPT !.handle =
        Some([k \in DOMAIN Handle(a) \cup {"finish"} |->
                IF k = "finish" THEN f ELSE Handle(a)[k]])]

\* C24: for style recessed-pull the handle consists of exactly one filled
\* rectangle in the wood colour darkened by 30 per channel (floor 0) and
\* exactly one darker inner-shadow line along its top edge; no offset
\* shadow, no bar in the finish colour and no bracket is drawn, and the
\* handle finish has no effect on the output.
C24_RecessedPull ==
    (StageDone("handle") /\ HandleStyle = "recessed-pull") =>
        LET h == HandleSeq
        IN  /\ Len(h) = 2
            /\ h[1].kind = "rect" /\ h[1].site = "handle-recess"
            /\ h[1].fill = [k \in 1..3 |-> Max(0, blended[k] - 30)]
            /\ h[2].kind = "line" /\ h[2].site = "handle-inner-shadow"
            /\ \A k \in 1..3 : h[2].fill[k] <= h[1].fill[k]
            /\ h[2].xy = <<h[1].xy[1], h[1].xy[2], h[1].xy[3], h[1].xy[2]>>
            /\ Sites(img, {"handle-shadow", "handle-bar", "handle-highlight",
                           "handle-bracket"}) = {}
            /\ pc = "done" =>
                  \A f \in Finishes \cup DOMAIN HANDLE_COLORS :
                      RenderAlone(WithFinish(args, f), strictRect) = ret[1]

\* a recessed pull ordered in brass: the recess is drawn in darkened wood
\* with a strictly darker line on its top edge
C24_Witness ==
    /\ pc = "done"
    /\ HandleStyle = "recessed-pull"
    /\ Get(Handle(args), "finish", "matte-black") = "brass"
    /\ Len(HandleSeq) = 2
    /\ HandleSeq[2].fill[1] < HandleSeq[1].fill[1]
    /\ HandleSeq[1].fill # <<150, 120, 20>>

\* the j-th smallest member of the set of numbers S
NthOf(S, j) == CHOOSE k \in S : Cardinality({i \in S : i < k}) = j - 1

\* the positions in the input list of the elements of a kind
OfKind(kind) ==
    {k \in 1..Len(Elements(args)) : Elements(args)[k]["type"] = kind}

\* bucket holds the elements of the kind in the order of the input list
KeepsOrder(bucket, kind) ==
    /\ Len(bucket) = Cardinality(OfKind(kind))
    /\ \A j \in 1..Len(bucket) : bucket[j] = Elements(args)[NthOf(OfKind(kind), j)]

\* fills holds one rectangle per element of the kind, the j-th being the
\* rectangle of the j-th such element of the input list; Span gives the
\* pixel span drawn for a converted size
DrawnInOrder(fills, kind, Span(_)) ==
    /\ Len(fills) = Cardinality(OfKind(kind))
    /\ \A j \in 1..Len(fills) :
          LET e == Elements(args)[NthOf(OfKind(kind), j)]
              x1 == to_px(e.position.x, scale)
              y1 == to_px(e.position.y, scale)
          IN  /\ fills[j].kind = "rect"
              /\ fills[j].xy = <<x1, y1,
                                 x1 + Span(to_px(e.size.width, scale)),
                                 y1 + Span(to_px(e.size.height, scale))>>

\* C25: elements are partitioned by type, not sorted: within each kind the
\* elements are drawn in the order they have in the input list, so of two
\* overlapping elements of one kind the later one of the input is drawn on
\* top, and every element of a recognised kind is drawn exactly once.
C25_InputOrder ==
    /\ StageDone("partition") =>
          /\ KeepsOrder(buckets.panels, "recessed-panel")
          /\ KeepsOrder(buckets.grooves, "groove")
          /\ KeepsOrder(buckets.glass, "glass-panel")
    /\ StageDone("panels") =>
          DrawnInOrder(OpsAt(img, "panel-fill"), "recessed-panel", LAMBDA v : v)
    /\ StageDone("grooves") =>
          DrawnInOrder(OpsAt(img, "groove-fill"), "groove", LAMBDA v : Max(v, 2))
    /\ StageDone("glass") =>
          DrawnInOrder(OpsAt(GlassOverlay, "glass-fill"), "glass-panel", LAMBDA v : v)

\* two panels at one position, the wide one first: the narrow one is drawn
\* second, over the wide one's left edge
C25_Witness ==
    /\ pc = "done"
    /\ Elements(args) = <<ElemPanel, ElemFlatPanel>>
    /\ LET f == OpsAt(img, "panel-fill")
       IN  /\ Len(f) = 2
           /\ f[2].xy[3] = f[2].xy[1]
           /\ f[1].xy[3] > f[1].xy[1]
           /\ Covers(f[1], f[2].xy[1], f[2].xy[2])

\* what an operation draws and where, whatever its colour
Shape(op) ==
    [kind |-> op.kind, xy |-> op.xy, width |-> op.width,
     over |-> [k \in 1..Len(op.over) |->
                 [kind |-> op.over[k].kind, xy |-> op.over[k].xy,
                  width |-> op.over[k].width]]]

\* a and b are the same operations at the same coordinates in the same order
SameOperations(a, b) ==
    /\ Len(a) = Len(b)
    /\ \A k \in 1..Len(a) : Shape(a[k]) = Shape(b[k])

\* both renderers have returned an image for the Metropolitan template
BothRendered == pc = "done" /\ PrevOk /\ args = MetropolitanCall(args.width_px)

\* C26: called with the Metropolitan template at a width of 5 px or more,
\* the generic renderer issues the same sequence of drawing operations at
\* the same pixel coordinates as render_door_slab of render_door_slab.py,
\* the two differing at most in colours; at widths 0 to 4 px the sequences
\* have the same length but differ in the coordinates of grooves.
C26_SameAboveFour ==
    BothRendered =>
        /\ Len(ret[1]) = Len(prev[1].image)
        /\ args.width_px >= 5 => SameOperations(prev[1].image, ret[1])
        /\ args.width_px <= 4 => ~SameOperations(prev[1].image, ret[1])

\* at 266 px the two images hold the same 12 grooves, glass panel and handle
\* at the same coordinates and differ in the colour of the grooves
C26_Witness ==
    /\ BothRendered
    /\ args.width_px = 266
    /\ Len(OpsAt(ret[1], "groove-fill")) = 12
    /\ Len(buckets.glass) = 1
    /\ SameOperations(prev[1].image, ret[1])
    /\ prev[1].image # ret[1]

\* C26 as stated: the same operations at the same coordinates at any width
C26_SameAtAnyWidth ==
    BothRendered => SameOperations(prev[1].image, ret[1])

\* the element types the renderer draws
Recognised == {"recessed-panel", "groove", "glass-panel"}

\* the arguments a with every element of another type taken out of the list
Stripped(a) ==
    [a EXCEPT !.elements =
        IF @ = None THEN @
        ELSE Some(SelectSeq(@[1], LAMBDA e : e["type"] \in Recognised))]

\* the call holds an element of an unrecognised type
HasUnrecognised ==
    \E k \in 1..Len(Elements(args)) : Elements(args)[k]["type"] \notin Recognised

\* C27: an element whose type is none of recessed-panel, groove and
\* glass-panel is skipped without error: nothing is drawn for it, and the
\* image is the one rendered from the list with that element removed.
C27_UnrecognisedSkipped ==
    /\ pc = "done" => ret[1] = RenderAlone(Stripped(args), strictRect)
    /\ (pc = "raised" /\ StageDone("partition") /\ err # "OSError") =>
          err = TailOps(Stripped(args), scale, height_px, blended, strictRect).err
    /\ StageDone("partition") =>
          Len(buckets.panels) + Len(buckets.grooves) + Len(buckets.glass)
             = Len(Elements(Stripped(args)))

\* an inlay listed before a panel: the call returns, the panel is drawn
C27_Witness ==
    /\ pc = "done"
    /\ HasUnrecognised
    /\ Elements(args) = <<ElemInlay, ElemPanel>>
    /\ Len(OpsAt(img, "panel-fill")) = 1
    /\ ret[1] = RenderAlone(Stripped(args), strictRect)

\* the call has a glass panel to draw
HasGlass == buckets.glass # <<>>

HandleSites ==
    {"handle-shadow", "handle-bar", "handle-highlight", "handle-bracket",
     "handle-recess", "handle-inner-shadow"}

\* the operations of one layer of an image
Layer(image, rank) == SelectSeq(image, LAMBDA op : LayerRank(op) = rank)

\* C28: when the template has at least one glass panel, the alpha composite
\* yields a new image and the drawing context is rebound to it before the
\* handle stage, so panels, grooves, glass, handle and lighting are all
\* present in the one image that is finally saved and returned; no drawing
\* made after the glass stage lands on a canvas that is then discarded.
C28_ContextRebound ==
    /\ binding.lost = <<>>
    /\ (HasGlass /\ pc = "handle") => binding.img = 2 /\ binding.draw = binding.img
    /\ (HasGlass /\ pc = "done") =>
          /\ file = [state |-> "written", image |-> ret[1]]
          /\ Len(OpsAt(ret[1], "panel-fill")) = Len(buckets.panels)
          /\ Len(OpsAt(ret[1], "groove-fill")) = Len(buckets.grooves)
          /\ Len(Layer(ret[1], 3)) = 1
          /\ Len(OpsAt(Layer(ret[1], 3)[1].over, "glass-fill")) = Len(buckets.glass)
          /\ Layer(ret[1], 4) =
                HandleOps(Handle(args), args.width_px, height_px, scale, blended)
          /\ Len(OpsAt(ret[1], "gradient")) = 1
          /\ \A k \in Sites(ret[1], {"glass"}), h \in Sites(ret[1], HandleSites) : k < h

\* panel, groove, glass panel and the default handle in one returned image
C28_Witness ==
    /\ pc = "done"
    /\ HasGlass
    /\ binding.img = 3
    /\ Len(buckets.panels) = 1 /\ Len(buckets.grooves) = 1
    /\ Len(OpsAt(ret[1], "panel-fill")) = 1
    /\ Len(OpsAt(ret[1], "groove-fill")) = 1
    /\ Len(Layer(ret[1], 4)) = 5
    /\ binding.lost = <<>>

\* the attempts made for variant i, in the order they were made
AttemptsOf(i) == SelectSeq(job.log, LAMBDA a : a.i = i)

\* the attempts of log are grouped by variant, variants in rising order
VariantsInOrder ==
    \A k \in 1..(Len(job.log) - 1) :
        job.log[k + 1].i \in {job.log[k].i, job.log[k].i + 1}

\* C29: in generate_gemini, for every variant the models of
\* GEMINI_IMAGE_MODELS are tried in list order; an attempt that raises or
\* yields no image is followed by the next model; the first model whose
\* image is saved ends the attempts for that variant, so at most one image
\* is saved per variant; a variant for which every model fails saves
\* nothing and does not stop the later variants.
C29_ModelFallback ==
    /\ VariantsInOrder
    /\ \A i \in 1..job.n :
          LET a == AttemptsOf(i)
          IN  /\ Len(a) <= Len(GEMINI_IMAGE_MODELS)
              /\ \A k \in 1..Len(a) : a[k].model = GEMINI_IMAGE_MODELS[k]
              /\ \A k \in 1..(Len(a) - 1) : a[k].outcome # "saved"
              /\ Cardinality({k \in 1..Len(a) : a[k].outcome = "saved"}) <= 1
              /\ job.files[FileOf(GEMINI_IMAGE_MODELS[1], i)] = "written" <=>
                    (a # <<>> /\ a[Len(a)].outcome = "saved")
              /\ (job.pc = "variant" /\ job.i = i) =>
                    /\ Len(a) = job.m - 1
                    /\ \A k \in 1..Len(a) : a[k].outcome # "saved"
              /\ ((job.pc = "returned" /\ job.key) \/ (job.pc = "variant" /\ job.i > i)) =>
                    /\ a # <<>>
                    /\ a[Len(a)].outcome # "saved" => Len(a) = Len(GEMINI_IMAGE_MODELS)
    /\ ~job.key => job.log = <<>>

\* variant 1 exhausts both models, variant 2 is saved by the second model
\* after the first one raised
C29_Witness ==
    /\ job.pc = "returned"
    /\ job.n = 2
    /\ Len(AttemptsOf(1)) = 2
    /\ \A k \in 1..2 : AttemptsOf(1)[k].outcome \in {"raised", "no-image"}
    /\ job.files[FileOf(GEMINI_IMAGE_MODELS[1], 1)] = "absent"
    /\ Len(AttemptsOf(2)) = 2
    /\ AttemptsOf(2)[1].outcome = "raised"
    /\ AttemptsOf(2)[2].outcome = "saved"
    /\ job.files[FileOf(GEMINI_IMAGE_MODELS[1], 2)] = "written"

\* C30: in generate_template, the slab and the composite are written before
\* the API key is looked at; with no GOOGLE_AI_API_KEY the function returns
\* without any provider call and without writing a variant; with a key,
\* exactly num_variants attempts are made in order 1..num_variants, an
\* exception in attempt i is caught and does not prevent attempts
\* i+1..num_variants, and each attempt writes at most one variant-i file.
C30_TemplatePipeline ==
    /\ job.pc \in {"key", "setup", "variant", "returned"} =>
          /\ file.state = "written"
          /\ job.composite = "written"
    /\ job.pc \in {"idle", "render"} => job.composite = "absent"
    /\ ~job.key =>
          /\ job.log = <<>>
          /\ \A i \in DOMAIN job.files : job.files[i] = "absent"
          /\ job.pc \notin {"setup", "variant"}
    /\ \A k \in 1..Len(job.log) : job.log[k].i = k
    /\ Len(job.log) <= job.n
    /\ job.pc = "variant" => Len(job.log) = job.i - 1
    /\ (job.pc = "returned" /\ job.key) => Len(job.log) = job.n
    /\ job.pc = "raised" => job.log = <<>>
    /\ \A i \in DOMAIN job.files :
          /\ job.files[i] # "absent" =>
                (i <= Len(job.log) /\ job.log[i].outcome \in {"saved", "save-raised"})
          /\ job.files[i] = "written" <=>
                (i <= Len(job.log) /\ job.log[i].outcome = "saved")

\* two variants asked for with a key: the first attempt raises, the second
\* one is made all the same and writes variant-2.png
C30_Witness ==
    /\ job.pc = "returned"
    /\ job.key
    /\ job.n = 2
    /\ Len(job.log) = 2
    /\ job.log[1].outcome = "raised"
    /\ job.log[2].outcome = "saved"
    /\ job.files = <<"absent", "written">>
    /\ file.state = "written"

====
